---- MODULE Spec2Model ----
(***************************************************************************)
(* Legacy factoid import of infobot-reborn                                 *)
(* (src/src/infobot/tools/legacy_import.py, src/src/infobot/kb).           *)
(*                                                                         *)
(* Text is a sequence of one-character strings; the control bytes of the   *)
(* legacy IRC markup are written "^B" (0x02), "^]" (0x1D), "^_" (0x1F),    *)
(* "^C" (0x03) and "^O" (0x0F), each standing for one character.           *)
(* Scores and thresholds are integers in hundredths (0.55 is 55); the      *)
(* binary rounding of Python floats is outside the model.                  *)
(***************************************************************************)
EXTENDS Integers, Sequences, FiniteSets, TLC

\* Python None; an optional value x is <<x>>
None == <<>>

Some(x) == <<x>>

\* ------------------------------------------------------------------------
\* Characters
\* ------------------------------------------------------------------------

LowerLetters ==
    <<"a", "b", "c", "d", "e", "f", "g", "h", "i", "j", "k", "l", "m", "n", "o", "p", "q", "r", "s", "t", "u", "v", "w", "x", "y", "z">>

UpperLetters ==
    <<"A", "B", "C", "D", "E", "F", "G", "H", "I", "J", "K", "L", "M", "N", "O", "P", "Q", "R", "S", "T", "U", "V", "W", "X", "Y", "Z">>

Digits ==
    {"0", "1", "2", "3", "4", "5", "6", "7", "8", "9"}

BOLD == "^B"

ITALIC == "^]"

UNDERLINE == "^_"

COLOR == "^C"

OTHER_CONTROL == "^O"

ControlChars == {BOLD, ITALIC, UNDERLINE, COLOR, OTHER_CONTROL}

NBSP == "nbsp"

\* the characters of line.strip(" \t\r\n")
PlainWhitespace == {" ", "\t", "\r", "\n"}

\* str.strip(), str.split() and \s: every character with str.isspace(), which
\* includes the no-break space and the separators 0x1C-0x1F
Whitespace == PlainWhitespace \cup {NBSP, ITALIC, UNDERLINE}

Max(a, b) == IF a >= b THEN a ELSE b

Min(a, b) == IF a <= b THEN a ELSE b

IsUpper(c) == \E i \in 1..26 : UpperLetters[i] = c

IsLower(c) == \E i \in 1..26 : LowerLetters[i] = c

IsDigit(c) == c \in Digits

\* str.isalnum() of one character
IsAlnum(c) == IsUpper(c) \/ IsLower(c) \/ IsDigit(c)

\* \w of the re module
IsWordChar(c) == IsAlnum(c) \/ c = "_"

IsSpace(c) == c \in Whitespace

LowerChar(c) ==
    IF IsUpper(c) THEN LowerLetters[CHOOSE i \in 1..26 : UpperLetters[i] = c]
    ELSE c

\* str.lower()
Lower(s) == [i \in 1..Len(s) |-> LowerChar(s[i])]

\* ------------------------------------------------------------------------
\* String helpers (str methods and the regular expressions of the module)
\* ------------------------------------------------------------------------

\* s[i:] of Python with a 1-based first index
Drop(s, i) == SubSeq(s, i, Len(s))

\* w occurs in s starting at index i
MatchAt(s, i, w) ==
    /\ i >= 1
    /\ i + Len(w) - 1 <= Len(s)
    /\ \A k \in 1..Len(w) : s[i + k - 1] = w[k]

\* w in s
Contains(s, w) == \E i \in 1..Len(s) : MatchAt(s, i, w)

\* str.count of a single character
CountChar(s, c) == Cardinality({i \in 1..Len(s) : s[i] = c})

\* \b between s[p] and s[p+1] (p = 0 is the start, p = Len(s) the end)
Boundary(s, p) ==
    LET before == p >= 1 /\ p <= Len(s) /\ IsWordChar(s[p])
        after == p + 1 >= 1 /\ p + 1 <= Len(s) /\ IsWordChar(s[p + 1])
    IN before # after

\* re.search(r"^(w1|w2|...)\b", s)
StartsWithWord(s, words) ==
    \E w \in words : MatchAt(s, 1, w) /\ Boundary(s, Len(w))

\* re.search(r"\b(w1|w2|...)\b", s)
ContainsWord(s, words) ==
    \E w \in words : \E i \in 1..Len(s) :
        MatchAt(s, i, w) /\ Boundary(s, i - 1) /\ Boundary(s, i - 1 + Len(w))

\* index just after the whitespace run that starts at index i (\s+ needs j > i)
SkipSpaces(s, i) ==
    CHOOSE j \in i..(Len(s) + 1) :
        /\ \A k \in i..(j - 1) : IsSpace(s[k])
        /\ (j = Len(s) + 1 \/ ~IsSpace(s[j]))

\* \w+ing\b matched at index i
GerundAt(s, i) ==
    \E q \in (i + 3)..Len(s) :
        /\ \A k \in i..q : IsWordChar(s[k])
        /\ MatchAt(s, q - 2, <<"i", "n", "g">>)
        /\ Boundary(s, q)

\* str.strip(chars), str.lstrip, str.rstrip
LStrip(s, chars) ==
    IF \A i \in 1..Len(s) : s[i] \in chars THEN <<>>
    ELSE Drop(s, CHOOSE i \in 1..Len(s) :
                     s[i] \notin chars /\ \A k \in 1..(i - 1) : s[k] \in chars)

RStrip(s, chars) ==
    IF \A i \in 1..Len(s) : s[i] \in chars THEN <<>>
    ELSE SubSeq(s, 1, CHOOSE i \in 1..Len(s) :
                     s[i] \notin chars /\ \A k \in (i + 1)..Len(s) : s[k] \in chars)

Strip(s, chars) == RStrip(LStrip(s, chars), chars)

\* first index of w in s (0 when absent)
Find(s, w) ==
    IF Contains(s, w)
    THEN CHOOSE i \in 1..Len(s) :
             MatchAt(s, i, w) /\ \A k \in 1..(i - 1) : ~MatchAt(s, k, w)
    ELSE 0

\* " ".join(s.split()): whitespace runs collapsed, both ends trimmed
RECURSIVE CollapseRuns(_)
CollapseRuns(s) ==
    IF s = <<>> THEN <<>>
    ELSE IF IsSpace(s[1])
         THEN <<" ">> \o CollapseRuns(LStrip(s, Whitespace))
         ELSE <<s[1]>> \o CollapseRuns(Tail(s))

CollapseWhitespace(s) == CollapseRuns(Strip(s, Whitespace))

\* ------------------------------------------------------------------------
\* clean_irc_formatting
\* ------------------------------------------------------------------------

\* re.sub(d + "([^d]*?)" + d, rep + "\1" + rep, s)
RECURSIVE SubPairs(_, _, _)
SubPairs(s, d, rep) ==
    LET i == Find(s, <<d>>)
    IN IF i = 0 THEN s
       ELSE LET rest == Drop(s, i + 1)
                j == Find(rest, <<d>>)
            IN IF j = 0 THEN s
               ELSE SubSeq(s, 1, i - 1) \o rep \o SubSeq(rest, 1, j - 1) \o rep
                        \o SubPairs(Drop(rest, j + 1), d, rep)

\* index just after the run of digits that starts at index i
DigitsEnd(s, i) ==
    CHOOSE j \in i..(Len(s) + 1) :
        /\ \A k \in i..(j - 1) : IsDigit(s[k])
        /\ (j = Len(s) + 1 \/ ~IsDigit(s[j]))

\* re.sub(r"\x03\d+(?:,\d+)?", "", s)
RECURSIVE StripColors(_)
StripColors(s) ==
    IF s = <<>> THEN <<>>
    ELSE IF s[1] = COLOR /\ Len(s) >= 2 /\ IsDigit(s[2])
         THEN LET a == DigitsEnd(s, 2)
                  b == IF a + 1 <= Len(s) /\ s[a] = "," /\ IsDigit(s[a + 1])
                       THEN DigitsEnd(s, a + 1)
                       ELSE a
              IN StripColors(Drop(s, b))
         ELSE <<s[1]>> \o StripColors(Tail(s))

IsNotControl(c) == c \notin ControlChars

clean_irc_formatting(text) ==
    LET bold == SubPairs(text, BOLD, <<"*", "*">>)
        italic == SubPairs(bold, ITALIC, <<"*">>)
        underline == SubPairs(italic, UNDERLINE, <<"_", "_">>)
        colors == StripColors(underline)
        plain == SelectSeq(colors, IsNotControl)
    IN Strip(plain, Whitespace)

\* ------------------------------------------------------------------------
\* parse_factoid_line
\* ------------------------------------------------------------------------

SEPARATOR == <<"=", ">">>

\* parse_factoid_line splitting on the last separator
parse_factoid_line_last_separator(line) ==
    IF ~Contains(line, SEPARATOR) THEN None
    ELSE LET at == CHOOSE i \in 1..Len(line) :
                       MatchAt(line, i, SEPARATOR)
                       /\ \A k \in (i + 1)..Len(line) : ~MatchAt(line, k, SEPARATOR)
             key == Strip(SubSeq(line, 1, at - 1), PlainWhitespace)
             value == Strip(Drop(line, at + 2), PlainWhitespace)
         IN IF key = <<>> \/ value = <<>> THEN None ELSE <<key, value>>

parse_factoid_line(line) ==
    IF ~Contains(line, SEPARATOR) THEN None
    ELSE LET at == Find(line, SEPARATOR)
             key == Strip(SubSeq(line, 1, at - 1), PlainWhitespace)
             value == Strip(Drop(line, at + 2), PlainWhitespace)
         IN IF key = <<>> \/ value = <<>> THEN None ELSE <<key, value>>

\* ------------------------------------------------------------------------
\* calculate_quality_score
\* ------------------------------------------------------------------------

INTERJECTION_WORDS ==
    { <<"a", "c", "k">>, <<"a", "h">>, <<"o", "h">>, <<"h", "m", "m">>,
      <<"h", "r", "m">>, <<"h", "m">>, <<"h", "u", "h">>, <<"h", "e", "y">>,
      <<"w", "e", "l", "l">>, <<"u", "g", "h">>, <<"w", "o", "w">>, <<"y", "a", "y">>,
      <<"y", "e", "h">>, <<"y", "e", "a", "h">>, <<"i", "d", "k">> }

FIRST_PERSON_WORDS ==
    { <<"i", "'", "m">>, <<"i", "'", "d">>, <<"i", "'", "l", "l">>, <<"i", "'", "v", "e">>,
      <<"y", "o", "u", "'", "r", "e">> }

CONJUNCTION_WORDS ==
    { <<"a", "s">>, <<"b", "u", "t">>, <<"a", "n", "d">>,
      <<"o", "r">>, <<"s", "o">>, <<"i", "f">>,
      <<"w", "h", "e", "n">>, <<"b", "e", "c", "a", "u", "s", "e">>, <<"s", "i", "n", "c", "e">>,
      <<"t", "h", "o", "u", "g", "h">>, <<"a", "l", "t", "h", "o", "u", "g", "h">>, <<"w", "h", "i", "l", "e">>,
      <<"a", "f", "t", "e", "r">>, <<"b", "e", "f", "o", "r", "e">>, <<"u", "n", "t", "i", "l">>,
      <<"f", "r", "o", "m">>, <<"l", "i", "k", "e">>, <<"m", "a", "y", "b", "e">>,
      <<"o", "n", "l", "y">>, <<"j", "u", "s", "t">>, <<"n", "o", "w">>,
      <<"t", "h", "e", "n">>, <<"s", "e", "e">>, <<"s", "o", "m", "e", "h", "o", "w">> }

CONVERSATIONAL_PHRASES ==
    { <<"l", "e", "t", " ", "m", "e">>, <<"l", "e", "t", "'", "s">>,
      <<"a", "s", "k", " ", "y", "o", "u">>, <<"t", "e", "l", "l", " ", "y", "o", "u">>,
      <<"y", "o", "u", " ", "k", "n", "o", "w">>, <<"i", " ", "t", "h", "i", "n", "k">>,
      <<"i", " ", "t", "h", "o", "u", "g", "h", "t">>, <<"i", "s", "s", "u", "e">>,
      <<"p", "r", "o", "b", "l", "e", "m">>, <<"t", "h", "i", "n", "g">>,
      <<"s", "e", "e", " ", "t", "h", "a", "t">>, <<"w", "o", "r", "k", "i", "n", "g">> }

ADDRESS_WORDS ==
    { <<"b", "u", "b">>, <<"d", "u", "d", "e">>, <<"m", "a", "n">>, <<"m", "a", "t", "e">>,
      <<"p", "a", "l">>, <<"b", "u", "d", "d", "y">> }

REPLY_MARKERS ==
    { <<"<", "r", "e", "s", "p", "o", "n", "s", "e", ">">>,
      <<"<", "r", "e", "p", "l", "y", ">">>,
      <<"<", "a", "c", "t", "i", "o", "n", ">">> }

AFFIRMATION_WORDS ==
    { <<"y", "e", "a", "h">>, <<"y", "e", "p">>, <<"n", "o", "p", "e">>, <<"n", "a", "h">>,
      <<"o", "k">>, <<"o", "k", "a", "y">>, <<"s", "u", "r", "e">>, <<"w", "h", "a", "t", "e", "v", "e", "r">> }

LAUGHTER_WORDS ==
    { <<"l", "o", "l">>, <<"h", "a", "h", "a">>, <<"h", "e", "h">>, <<"h", "e", "h", "e">>,
      <<"r", "o", "f", "l">>, <<"l", "m", "a", "o">> }

HESITATION_WORDS ==
    { <<"h", "m", "m">>, <<"u", "m", "m">>, <<"u", "h">>, <<"e", "r">>,
      <<"h", "r", "m">>, <<"h", "u", "h">> }

STATUS_WORDS ==
    { <<"b", "a", "c", "k">>, <<"h", "e", "r", "e">>, <<"g", "o", "n", "e">>,
      <<"a", "w", "a", "y">>, <<"a", "r", "o", "u", "n", "d">>, <<"b", "u", "s", "y">>,
      <<"a", "f", "k">>, <<"b", "r", "b">> }

UNCERTAINTY_WORDS ==
    { <<"n", "o", "t", " ", "s", "u", "r", "e">>, <<"n", "o", " ", "i", "d", "e", "a">>,
      <<"d", "u", "n", "n", "o">>, <<"i", "d", "k">>,
      <<"i", "i", "r", "c">> }

EMOTIONAL_WORDS ==
    { <<"s", "h", "y">>, <<"a", "f", "r", "a", "i", "d">>, <<"s", "o", "r", "r", "y">>,
      <<"g", "l", "a", "d">>, <<"h", "a", "p", "p", "y">>, <<"s", "a", "d">> }

INTENSIFIER_WORDS ==
    { <<"r", "e", "a", "l", "l", "y">>, <<"a", "c", "t", "u", "a", "l", "l", "y">>,
      <<"b", "a", "s", "i", "c", "a", "l", "l", "y">>, <<"l", "i", "t", "e", "r", "a", "l", "l", "y">> }

FIRST_PERSON_ACTION_WORDS ==
    { <<"i", "'", "m">>, <<"i", " ", "a", "m">> }

TERMINAL_PUNCTUATION == {"?", "!", ".", ","}

EMOTICON_EYES == {"o", "O", "x", "X", "0"}

EMOTICON_MOUTHS == {")", "(", "D", "P", "p", "O", "/", "\\", "|"}

PLAIN_PUNCTUATION == {" ", ".", ",", "!", "?", "-"}

\* re.search(r"^(i\s|i'm|i'd|i'll|i've|you're)\b", s)
StartsFirstPerson(s) ==
    \/ Len(s) >= 2 /\ s[1] = "i" /\ IsSpace(s[2]) /\ Boundary(s, 2)
    \/ StartsWithWord(s, FIRST_PERSON_WORDS)

\* re.search(r"[oOxX0][._][oOxX0]|>_<|\^_\^", s)
HasTextEmoticon(s) ==
    \/ \E i \in 1..(Len(s) - 2) :
           s[i] \in EMOTICON_EYES /\ s[i + 1] \in {".", "_"} /\ s[i + 2] \in EMOTICON_EYES
    \/ Contains(s, <<">", "_", "<">>)
    \/ Contains(s, <<"^", "_", "^">>)

\* re.search(r"^(w1|...)\s+to\b", s)
StartsEmotionalState(s) ==
    \E w \in EMOTIONAL_WORDS :
        /\ MatchAt(s, 1, w)
        /\ LET j == SkipSpaces(s, Len(w) + 1)
           IN j > Len(w) + 1 /\ MatchAt(s, j, <<"t", "o">>) /\ Boundary(s, j + 1)

\* re.search(r"^(w1|...)\s+\w+ing\b", s)
StartsIntensifierGerund(s) ==
    \E w \in INTENSIFIER_WORDS :
        /\ MatchAt(s, 1, w)
        /\ LET j == SkipSpaces(s, Len(w) + 1)
           IN j > Len(w) + 1 /\ GerundAt(s, j)

\* re.search(r"\b(i'm|i am)\s+\w+ing\b", s)
HasFirstPersonAction(s) ==
    \E w \in FIRST_PERSON_ACTION_WORDS : \E i \in 1..Len(s) :
        /\ MatchAt(s, i, w)
        /\ Boundary(s, i - 1)
        /\ LET j == SkipSpaces(s, i + Len(w))
           IN j > i + Len(w) /\ GerundAt(s, j)

\* any pattern of conversational_patterns matches
MatchesConversationalPattern(s) ==
    \/ StartsWithWord(s, AFFIRMATION_WORDS)
    \/ StartsWithWord(s, LAUGHTER_WORDS)
    \/ StartsWithWord(s, HESITATION_WORDS)
    \/ StartsWithWord(s, STATUS_WORDS)
    \/ StartsWithWord(s, UNCERTAINTY_WORDS)
    \/ StartsEmotionalState(s)
    \/ StartsIntensifierGerund(s)
    \/ HasFirstPersonAction(s)

\* re.search(r"[:;]['\-]?[)(DPpO/\\|]", s)
HasEmoticon(s) ==
    \E i \in 1..Len(s) :
        /\ s[i] \in {":", ";"}
        /\ \/ i + 1 <= Len(s) /\ s[i + 1] \in EMOTICON_MOUTHS
           \/ i + 2 <= Len(s) /\ s[i + 1] \in {"'", "-"} /\ s[i + 2] \in EMOTICON_MOUTHS

HasUrl(s) ==
    \/ Contains(s, <<"h", "t", "t", "p", ":", "/", "/">>)
    \/ Contains(s, <<"h", "t", "t", "p", "s", ":", "/", "/">>)

\* the key signals that set key_has_conversational_signal
KeyEndsInPunctuation(key) ==
    LET k == RStrip(key, Whitespace)
    IN k # <<>> /\ k[Len(k)] \in TERMINAL_PUNCTUATION

key_has_conversational_signal(key) ==
    LET key_lower == Lower(key)
    IN \/ KeyEndsInPunctuation(key)
       \/ StartsWithWord(key_lower, INTERJECTION_WORDS)
       \/ StartsFirstPerson(key_lower)
       \/ StartsWithWord(key_lower, CONJUNCTION_WORDS)
       \/ CountChar(key, ",") >= 1
       \/ Contains(key, <<".", ".", ".">>)
       \/ HasTextEmoticon(key)
       \/ ContainsWord(key_lower, CONVERSATIONAL_PHRASES)
       \/ ContainsWord(key_lower, ADDRESS_WORDS)

KeyScore(key) ==
    LET key_words == CountChar(key, " ") + 1
        key_lower == Lower(key)
        comma_count == CountChar(key, ",")
    IN (IF key_words > 10 THEN -30
          ELSE IF key_words > 6 THEN -20
          ELSE IF key_words > 4 THEN -10 ELSE 0)
       + (IF KeyEndsInPunctuation(key) THEN -20 ELSE 0)
       + (IF StartsWithWord(key_lower, INTERJECTION_WORDS) THEN -20 ELSE 0)
       + (IF StartsFirstPerson(key_lower) THEN -15 ELSE 0)
       + (IF StartsWithWord(key_lower, CONJUNCTION_WORDS) THEN -15 ELSE 0)
       + (IF comma_count >= 2 THEN -25 ELSE IF comma_count = 1 THEN -15 ELSE 0)
       + (IF Contains(key, <<".", ".", ".">>) THEN -15 ELSE 0)
       + (IF HasTextEmoticon(key) THEN -20 ELSE 0)
       + (IF ContainsWord(key_lower, CONVERSATIONAL_PHRASES) THEN -20 ELSE 0)
       + (IF ContainsWord(key_lower, ADDRESS_WORDS) THEN -20 ELSE 0)
       + (IF key_words <= 2 /\ ~key_has_conversational_signal(key) THEN 10 ELSE 0)

ValueScore(value) ==
    LET n == Len(value)
        special_chars ==
            Cardinality({i \in 1..n : ~IsAlnum(value[i]) /\ value[i] \notin PLAIN_PUNCTUATION})
    IN (IF n < 3 THEN -35
          ELSE IF n < 10 THEN -5
          ELSE IF n > 500 THEN -30
          ELSE IF n > 200 THEN -10 ELSE 10)
       + (IF \E m \in REPLY_MARKERS : Contains(Lower(value), m) THEN 30 ELSE 0)
       + (IF MatchesConversationalPattern(Lower(value)) THEN -30 ELSE 0)
       + (IF HasUrl(value) THEN 20 ELSE 0)
       + (IF HasEmoticon(value) THEN -10 ELSE 0)
       + (IF special_chars * 10 > 3 * Max(n, 1) THEN -20 ELSE 0)

\* calculate_quality_score returning the sum of the signals as it is
calculate_quality_score_unclamped(key, value) ==
    50 + KeyScore(key) + ValueScore(value)

\* hundredths of the score; max(0.0, min(1.0, score))
calculate_quality_score(key, value) ==
    Max(0, Min(100, 50 + KeyScore(key) + ValueScore(value)))

\* ------------------------------------------------------------------------
\* Telemetry: ImportStats, histogram, reservoirs, percentiles, guidance
\* ------------------------------------------------------------------------

QUALITY_BUCKET_COUNT == 10

QUALITY_PERCENTILES == {50, 75, 90, 95}

DEFAULT_LEGACY_IMPORT_SAMPLE_CAP == 20

DEFAULT_LEGACY_IMPORT_RNG_SEED == 1337

DEFAULT_QUALITY_SAMPLE_PREVIEW_CHARS == 96

DEFAULT_DIAGNOSTIC_PARSED_INTERVAL == 1000

\* seconds
DEFAULT_DIAGNOSTIC_SECONDS_INTERVAL == 30

\* ImportStats(): the freshly constructed accumulator
ImportStats ==
    [ total_lines |-> 0, parsed |-> 0, skipped_invalid |-> 0,
      skipped_low_quality |-> 0, imported |-> 0, duplicates |-> 0, errors |-> 0,
      quality_observations |-> 0, quality_score_sum |-> 0,
      quality_min |-> None, quality_max |-> None,
      quality_buckets |-> [i \in 1..QUALITY_BUCKET_COUNT |-> 0],
      quality_p50 |-> None, quality_p75 |-> None,
      quality_p90 |-> None, quality_p95 |-> None,
      accepted_candidates |-> 0, rejected_candidates |-> 0,
      accepted_samples |-> <<>>, rejected_samples |-> <<>> ]

\* An environment variable is unset (None) or set to a text: Some(<<"int", n>>)
\* when int() parses it as n, Some(<<"text", 0>>) when int() rejects it.
EnvInt(n) == Some(<<"int", n>>)

EnvGarbage == Some(<<"text", 0>>)

\* Result of a call that may raise: <<"ok", value>> or <<"raise", exception>>
Ok(v) == <<"ok", v>>

Raise(e) == <<"raise", e>>

IsOk(r) == r[1] = "ok"

\* resolve_legacy_import_sample_cap(None) under environment value env
resolve_legacy_import_sample_cap(env) ==
    IF env = None THEN Ok(DEFAULT_LEGACY_IMPORT_SAMPLE_CAP)
    ELSE IF env[1][1] # "int" THEN Raise("ValueError")
    ELSE IF env[1][2] < 0 THEN Raise("ValueError")
    ELSE Ok(env[1][2])

\* resolve_legacy_import_rng_seed(None) under environment value env
resolve_legacy_import_rng_seed(env) ==
    IF env = None THEN Ok(DEFAULT_LEGACY_IMPORT_RNG_SEED)
    ELSE IF env[1][1] # "int" THEN Raise("ValueError")
    ELSE Ok(env[1][2])

\* random.Random(seed): the generator is a deterministic function of its seed
\* and of the draws made so far; its state is kept in 0..15.
build_quality_rng(seed) == seed % 16

\* the generator state after one draw
RngAdvance(state) == (5 * state + 3) % 16

\* rng.randrange(n) for n >= 1, on the state after the draw
randrange(state, n) == (RngAdvance(state) \div 2) % n

clamp_quality_score(quality_score) == Max(0, Min(100, quality_score))

\* 0-based bucket index
get_quality_bucket_index(quality_score) ==
    LET clamped_score == clamp_quality_score(quality_score)
    IN IF clamped_score >= 100 THEN QUALITY_BUCKET_COUNT - 1
       ELSE (clamped_score * QUALITY_BUCKET_COUNT) \div 100

\* update_quality_aggregates with the observation counted for accepted
\* candidates only
update_quality_aggregates_accepted_only(stats, quality_score, accepted) ==
    LET clamped_score == clamp_quality_score(quality_score)
        bucket == get_quality_bucket_index(clamped_score) + 1
    IN [stats EXCEPT
          !.quality_observations = IF accepted THEN @ + 1 ELSE @,
          !.quality_score_sum = @ + clamped_score,
          !.quality_min = IF @ = None THEN Some(clamped_score)
                          ELSE Some(Min(@[1], clamped_score)),
          !.quality_max = IF @ = None THEN Some(clamped_score)
                          ELSE Some(Max(@[1], clamped_score)),
          !.quality_buckets[bucket] = @ + 1,
          !.accepted_candidates = IF accepted THEN @ + 1 ELSE @,
          !.rejected_candidates = IF accepted THEN @ ELSE @ + 1]

update_quality_aggregates(stats, quality_score, accepted) ==
    LET clamped_score == clamp_quality_score(quality_score)
        bucket == get_quality_bucket_index(clamped_score) + 1
    IN [stats EXCEPT
          !.quality_observations = @ + 1,
          !.quality_score_sum = @ + clamped_score,
          !.quality_min = IF @ = None THEN Some(clamped_score)
                          ELSE Some(Min(@[1], clamped_score)),
          !.quality_max = IF @ = None THEN Some(clamped_score)
                          ELSE Some(Max(@[1], clamped_score)),
          !.quality_buckets[bucket] = @ + 1,
          !.accepted_candidates = IF accepted THEN @ + 1 ELSE @,
          !.rejected_candidates = IF accepted THEN @ ELSE @ + 1]

build_quality_sample(source_file, line_number, key, value, quality_score) ==
    LET compact_value == CollapseWhitespace(value)
        value_preview ==
            IF Len(compact_value) > DEFAULT_QUALITY_SAMPLE_PREVIEW_CHARS
            THEN SubSeq(compact_value, 1, DEFAULT_QUALITY_SAMPLE_PREVIEW_CHARS)
                     \o <<".", ".", ".">>
            ELSE compact_value
    IN [source_file |-> source_file, line_number |-> line_number, key |-> key,
        value_preview |-> value_preview, score |-> clamp_quality_score(quality_score)]

\* reservoir_sample_insert appending while the reservoir holds sample_cap
\* samples or fewer
reservoir_sample_insert_appends_at_cap(reservoir, sample, population_seen, sample_cap, rng) ==
    IF Len(reservoir) <= sample_cap
    THEN [reservoir |-> Append(reservoir, sample), rng |-> rng]
    ELSE LET replacement_index == randrange(rng, population_seen)
         IN [reservoir |-> IF replacement_index < sample_cap
                           THEN [reservoir EXCEPT ![replacement_index + 1] = sample]
                           ELSE reservoir,
             rng |-> RngAdvance(rng)]

\* reservoir_sample_insert with the sample always written to the first slot
\* of a full reservoir when the drawn index is below the cap
reservoir_sample_insert_drawn_first_slot(reservoir, sample, sample_cap, replacement_index) ==
    IF sample_cap <= 0 THEN reservoir
    ELSE IF Len(reservoir) < sample_cap THEN Append(reservoir, sample)
    ELSE IF replacement_index < sample_cap
         THEN [reservoir EXCEPT ![1] = sample]
         ELSE reservoir

\* The reservoir after the call, replacement_index being the value that
\* rng.randrange(population_seen) returns when the call draws one.
reservoir_sample_insert_drawn(reservoir, sample, sample_cap, replacement_index) ==
    IF sample_cap <= 0 THEN reservoir
    ELSE IF Len(reservoir) < sample_cap THEN Append(reservoir, sample)
    ELSE IF replacement_index < sample_cap
         THEN [reservoir EXCEPT ![replacement_index + 1] = sample]
         ELSE reservoir

\* whether the call draws from the generator
reservoir_sample_insert_draws(reservoir, sample_cap) ==
    sample_cap > 0 /\ Len(reservoir) >= sample_cap

\* Returns the reservoir and the generator state after the call.
reservoir_sample_insert(reservoir, sample, population_seen, sample_cap, rng) ==
    IF reservoir_sample_insert_draws(reservoir, sample_cap)
    THEN [reservoir |-> reservoir_sample_insert_drawn(reservoir, sample, sample_cap,
                                                      randrange(rng, population_seen)),
          rng |-> RngAdvance(rng)]
    ELSE [reservoir |-> reservoir_sample_insert_drawn(reservoir, sample, sample_cap, 0),
          rng |-> rng]

\* the population taken from the records persisted so far
population_seen_from_imported(stats, accepted) ==
    IF accepted THEN stats.imported + 1 ELSE stats.rejected_candidates

\* the population counter read before the current sample was counted
population_seen_before_counting(stats, accepted) ==
    (IF accepted THEN stats.accepted_candidates ELSE stats.rejected_candidates) - 1

\* the population counter handed to the reservoir
population_seen(stats, accepted) ==
    IF accepted THEN stats.accepted_candidates ELSE stats.rejected_candidates

\* record_quality_sample keeping the samples of both streams in
\* accepted_samples
record_quality_sample_one_reservoir(stats, sample, accepted, sample_cap, rng) ==
    LET r == reservoir_sample_insert(stats.accepted_samples, sample,
                 population_seen(stats, accepted), sample_cap, rng)
    IN [stats |-> [stats EXCEPT !.accepted_samples = r.reservoir], rng |-> r.rng]

\* Returns the stats and the generator state after the call.
record_quality_sample(stats, sample, accepted, sample_cap, rng) ==
    LET reservoir == IF accepted THEN stats.accepted_samples ELSE stats.rejected_samples
        r == reservoir_sample_insert(reservoir, sample,
                 population_seen(stats, accepted), sample_cap, rng)
    IN [stats |-> IF accepted THEN [stats EXCEPT !.accepted_samples = r.reservoir]
                  ELSE [stats EXCEPT !.rejected_samples = r.reservoir],
        rng |-> r.rng]

\* The stats the call can leave, one for each value that rng.randrange can
\* return (any of 0..population_seen-1), in the order of the values; a call
\* that does not draw leaves one.
record_quality_sample_outcomes(stats, sample, accepted, sample_cap) ==
    LET reservoir == IF accepted THEN stats.accepted_samples ELSE stats.rejected_samples
        draws == IF reservoir_sample_insert_draws(reservoir, sample_cap)
                 THEN population_seen(stats, accepted) ELSE 1
        drawn(replacement_index) ==
            reservoir_sample_insert_drawn(reservoir, sample, sample_cap, replacement_index)
    IN [d \in 1..draws |->
           IF accepted THEN [stats EXCEPT !.accepted_samples = drawn(d - 1)]
           ELSE [stats EXCEPT !.rejected_samples = drawn(d - 1)]]

RECURSIVE SumSeq(_)
SumSeq(s) == IF s = <<>> THEN 0 ELSE Head(s) + SumSeq(Tail(s))

\* max(1, ceil(total_samples * (percentile / 100)))
target_rank(total_samples, percentile) ==
    Max(1, (total_samples * percentile + 99) \div 100)

\* The estimate with position = rank / count, the candidates of the buckets
\* below not subtracted
PercentileEstimate_rank_position(bucket_counts, percentile) ==
    LET rank == target_rank(SumSeq(bucket_counts), percentile)
        cumulative(i) == SumSeq(SubSeq(bucket_counts, 1, i))
        b == CHOOSE i \in 1..QUALITY_BUCKET_COUNT :
                 cumulative(i) >= rank /\ \A k \in 1..(i - 1) : cumulative(k) < rank
        bucket_count == bucket_counts[b]
    IN IF bucket_count = 0 THEN <<b, QUALITY_BUCKET_COUNT>>
       ELSE <<(b - 1) * bucket_count + rank, QUALITY_BUCKET_COUNT * bucket_count>>

\* One estimate, as the exact fraction <<numerator, denominator>> of the score:
\* lower + (upper - lower) * position with position = (rank - previous) / count.
PercentileEstimate(bucket_counts, percentile) ==
    LET rank == target_rank(SumSeq(bucket_counts), percentile)
        cumulative(i) == SumSeq(SubSeq(bucket_counts, 1, i))
        b == CHOOSE i \in 1..QUALITY_BUCKET_COUNT :
                 cumulative(i) >= rank /\ \A k \in 1..(i - 1) : cumulative(k) < rank
        bucket_count == bucket_counts[b]
        previous == cumulative(b) - bucket_count
    IN IF bucket_count = 0 THEN <<b, QUALITY_BUCKET_COUNT>>
       ELSE <<(b - 1) * bucket_count + (rank - previous),
              QUALITY_BUCKET_COUNT * bucket_count>>

\* clamp_quality_score of a fraction <<numerator, denominator>>
clamp_fraction(f) ==
    IF f[1] < 0 THEN <<0, 1>> ELSE IF f[1] > f[2] THEN <<1, 1>> ELSE f

\* compute_quality_percentiles(bucket_counts, percentiles)
compute_quality_percentiles_at(bucket_counts, percentiles) ==
    IF SumSeq(bucket_counts) = 0 THEN [p \in percentiles |-> None]
    ELSE [p \in percentiles |->
              Some(clamp_fraction(PercentileEstimate(bucket_counts, p)))]

\* compute_quality_percentiles(bucket_counts), percentiles left at the default
compute_quality_percentiles(bucket_counts) ==
    compute_quality_percentiles_at(bucket_counts, QUALITY_PERCENTILES)

\* refresh_quality_percentiles leaving the fields as they are
refresh_quality_percentiles_not_run(stats) == stats

refresh_quality_percentiles(stats) ==
    LET percentile_values == compute_quality_percentiles(stats.quality_buckets)
    IN [stats EXCEPT !.quality_p50 = percentile_values[50],
                     !.quality_p75 = percentile_values[75],
                     !.quality_p90 = percentile_values[90],
                     !.quality_p95 = percentile_values[95]]

\* validate_quality_threshold without the upper limit
validate_quality_threshold_no_upper_limit(quality_threshold) ==
    IF ~(0 <= quality_threshold) THEN Raise("ValueError") ELSE Ok(TRUE)

validate_quality_threshold(quality_threshold) ==
    IF ~(0 <= quality_threshold /\ quality_threshold <= 100)
    THEN Raise("ValueError") ELSE Ok(TRUE)

validate_diagnostic_cadence(parsed_interval, seconds_interval) ==
    IF parsed_interval <= 0 THEN Raise("ValueError")
    ELSE IF seconds_interval <= 0 THEN Raise("ValueError")
    ELSE Ok(TRUE)

\* should_emit_quality_diagnostics firing one record after the interval
should_emit_quality_diagnostics_late(stats, parsed_since_last, elapsed_seconds, parsed_interval, seconds_interval) ==
    IF stats.parsed = 0 \/ parsed_since_last <= 0 THEN FALSE
    ELSE IF parsed_since_last > parsed_interval THEN TRUE
    ELSE elapsed_seconds >= seconds_interval

should_emit_quality_diagnostics(stats, parsed_since_last, elapsed_seconds, parsed_interval, seconds_interval) ==
    IF stats.parsed = 0 \/ parsed_since_last <= 0 THEN FALSE
    ELSE IF parsed_since_last >= parsed_interval THEN TRUE
    ELSE elapsed_seconds >= seconds_interval

\* round(x, 2) of the fraction f = <<n, d>>, in hundredths.  An exact tie is
\* rounded to even here; Python rounds the nearest double of x, so on a tie
\* its result may be either neighbour.
Round2(f) ==
    LET n == 100 * f[1]
        q == n \div f[2]
        r == n % f[2]
    IN IF 2 * r > f[2] \/ (2 * r = f[2] /\ q % 2 = 1) THEN q + 1 ELSE q

\* build_threshold_guidance with the sample-size gate off by one
build_threshold_guidance_gate_inclusive(stats, quality_threshold, min_sample_size) ==
    LET refreshed == refresh_quality_percentiles(stats)
    IN IF ~IsOk(validate_quality_threshold(quality_threshold)) \/ min_sample_size <= 0
       THEN Raise("ValueError")
       ELSE IF refreshed.quality_observations <= min_sample_size
       THEN Ok([current_threshold |-> quality_threshold,
                suggested_threshold |-> None,
                confidence |-> "low",
                rationale |-> "insufficient"])
       ELSE Ok([current_threshold |-> quality_threshold,
                suggested_threshold |-> Some(quality_threshold),
                confidence |-> "medium",
                rationale |-> "keep"])

\* build_threshold_guidance with the reject-rate boundaries included
build_threshold_guidance_rate_inclusive(stats, quality_threshold, min_sample_size) ==
    LET refreshed == refresh_quality_percentiles(stats)
        observations == refreshed.quality_observations
        rejected == refreshed.rejected_candidates
        high == observations > 0 /\ rejected * 100 >= 80 * observations
        low == observations = 0 \/ rejected * 100 <= 5 * observations
    IN IF ~IsOk(validate_quality_threshold(quality_threshold)) \/ min_sample_size <= 0
       THEN Raise("ValueError")
       ELSE IF observations < min_sample_size
       THEN Ok([current_threshold |-> quality_threshold,
                suggested_threshold |-> None,
                confidence |-> "low",
                rationale |-> "insufficient"])
       ELSE Ok([current_threshold |-> quality_threshold,
                suggested_threshold |->
                    IF high /\ refreshed.quality_p50 # None
                    THEN Some(Round2(refreshed.quality_p50[1]))
                    ELSE IF low /\ refreshed.quality_p90 # None
                    THEN Some(Round2(refreshed.quality_p90[1]))
                    ELSE Some(quality_threshold),
                confidence |-> "medium",
                rationale |->
                    IF high /\ refreshed.quality_p50 # None THEN "lower"
                    ELSE IF low /\ refreshed.quality_p90 # None THEN "raise"
                    ELSE "keep"])

\* Ok(ThresholdGuidance), or Raise when an argument is rejected.
build_threshold_guidance(stats, quality_threshold, min_sample_size) ==
    LET refreshed == refresh_quality_percentiles(stats)
        observations == refreshed.quality_observations
        rejected == refreshed.rejected_candidates
        high == observations > 0 /\ rejected * 100 > 80 * observations
        low == observations = 0 \/ rejected * 100 < 5 * observations
    IN IF ~IsOk(validate_quality_threshold(quality_threshold)) \/ min_sample_size <= 0
       THEN Raise("ValueError")
       ELSE IF observations < min_sample_size
       THEN Ok([current_threshold |-> quality_threshold,
                suggested_threshold |-> None,
                confidence |-> "low",
                rationale |-> "insufficient"])
       ELSE Ok([current_threshold |-> quality_threshold,
                suggested_threshold |->
                    IF high /\ refreshed.quality_p50 # None
                    THEN Some(Round2(refreshed.quality_p50[1]))
                    ELSE IF low /\ refreshed.quality_p90 # None
                    THEN Some(Round2(refreshed.quality_p90[1]))
                    ELSE Some(quality_threshold),
                confidence |-> "medium",
                rationale |->
                    IF high /\ refreshed.quality_p50 # None THEN "lower"
                    ELSE IF low /\ refreshed.quality_p90 # None THEN "raise"
                    ELSE "keep"])

\* ------------------------------------------------------------------------
\* The console report
\* ------------------------------------------------------------------------

DEFAULT_DIAGNOSTIC_SAMPLE_PREVIEW_LIMIT == 3

\* A rendered line is [text, values]: the fixed text of the line and the
\* values printed in it, in the order of printing and before formatting.
Line(text, values) == [text |-> text, values |-> values]

\* the sequence s with the elements at the indices of kept, in order
KeepAt(s, kept) ==
    LET F[i \in 0..Len(s)] ==
            IF i = 0 THEN <<>>
            ELSE IF i \in kept THEN Append(F[i - 1], s[i]) ELSE F[i - 1]
    IN F[Len(s)]

\* format_quality_sample_previews: "none", or the first samples by line
\* number (the samples compared here are of one source file)
format_quality_sample_previews(samples) ==
    IF samples = <<>> THEN <<"none">>
    ELSE LET preview_items == SortSeq(samples, LAMBDA a, b : a.line_number < b.line_number)
         IN [i \in 1..Min(Len(preview_items), DEFAULT_DIAGNOSTIC_SAMPLE_PREVIEW_LIMIT) |->
                <<preview_items[i].key, preview_items[i].line_number,
                  preview_items[i].score, preview_items[i].value_preview>>]

\* render_sample_table: the samples of both reservoirs by falling score, then
\* line number, without repetitions of (key, score, value_preview)
render_sample_table(accepted_samples, rejected_samples) ==
    LET all_samples ==
            [i \in 1..Len(accepted_samples) |-> <<"Accepted", accepted_samples[i]>>]
            \o [i \in 1..Len(rejected_samples) |-> <<"Rejected", rejected_samples[i]>>]
        sorted ==
            SortSeq(all_samples,
                    LAMBDA a, b : \/ a[2].score > b[2].score
                                  \/ /\ a[2].score = b[2].score
                                     /\ a[2].line_number < b[2].line_number)
        same(a, b) ==
            /\ a[2].key = b[2].key
            /\ a[2].score = b[2].score
            /\ a[2].value_preview = b[2].value_preview
        unique_samples ==
            KeepAt(sorted, {i \in 1..Len(sorted) :
                               \A j \in 1..(i - 1) : ~same(sorted[j], sorted[i])})
    IN IF unique_samples = <<>> THEN <<>>
       ELSE <<Line("| STATUS | KEY | SCORE | VALUE", <<>>), Line("|---|---|---|---", <<>>)>>
            \o [i \in 1..Len(unique_samples) |->
                   LET sample == unique_samples[i][2]
                   IN Line("| sample", <<unique_samples[i][1],
                                         SubSeq(sample.key, 1, Min(Len(sample.key), 45)),
                                         sample.score,
                                         SubSeq(sample.value_preview, 1,
                                                Min(Len(sample.value_preview), 60))>>)]

\* render_import_summary: Ok(lines), or Raise when an argument is rejected.
\* build_threshold_guidance has refreshed the percentiles of stats.
render_import_summary(stats, quality_threshold, guidance_min_sample_size) ==
    LET guidance ==
            build_threshold_guidance(stats, quality_threshold, guidance_min_sample_size)
        refreshed == refresh_quality_percentiles(stats)
        observations == refreshed.quality_observations
        quality_average ==
            IF observations = 0 THEN None
            ELSE Some(<<refreshed.quality_score_sum, observations>>)
        reject_rate ==
            IF observations = 0 THEN <<0, 1>>
            ELSE <<refreshed.rejected_candidates, observations>>
        sample_table ==
            render_sample_table(refreshed.accepted_samples, refreshed.rejected_samples)
    IN IF ~IsOk(validate_quality_threshold(quality_threshold)) THEN Raise("ValueError")
       ELSE IF ~IsOk(guidance) THEN guidance
       ELSE Ok((IF sample_table = <<>> THEN <<>>
                ELSE <<Line("QUALITY SAMPLES (sorted by score)", <<>>), Line("", <<>>)>>
                     \o sample_table \o <<Line("", <<>>)>>)
               \o <<Line("IMPORT SUMMARY", <<>>),
                     Line("====", <<>>),
                     Line("Total lines processed:", <<refreshed.total_lines>>),
                     Line("Successfully parsed:", <<refreshed.parsed>>),
                     Line("Skipped (invalid format):", <<refreshed.skipped_invalid>>),
                     Line("Skipped (low quality):", <<refreshed.skipped_low_quality>>),
                     Line("Duplicates:", <<refreshed.duplicates>>),
                     Line("Errors:", <<refreshed.errors>>),
                     Line("Successfully imported:", <<refreshed.imported>>),
                     Line("====", <<>>),
                     Line("QUALITY METRICS", <<>>),
                     Line("----", <<>>),
                     Line("Scored candidates:", <<observations>>),
                     Line("Accepted candidates:", <<refreshed.accepted_candidates>>),
                     Line("Rejected candidates:", <<refreshed.rejected_candidates>>),
                     Line("Reject rate:", <<reject_rate>>),
                     Line("Score range/avg:", <<refreshed.quality_min, quality_average,
                                                refreshed.quality_max>>),
                     Line("Percentiles:", <<refreshed.quality_p50, refreshed.quality_p75,
                                            refreshed.quality_p90, refreshed.quality_p95>>),
                     Line("Histogram:", <<>>)>>
               \o [i \in 1..QUALITY_BUCKET_COUNT |->
                      Line("bucket", <<i - 1, refreshed.quality_buckets[i],
                                       IF observations = 0 THEN <<0, 1>>
                                       ELSE <<refreshed.quality_buckets[i] * 100,
                                              observations>>>>)]
               \o <<Line("Accepted samples:",
                          format_quality_sample_previews(refreshed.accepted_samples)),
                     Line("Rejected samples:",
                          format_quality_sample_previews(refreshed.rejected_samples)),
                     Line("Threshold guidance:", <<>>),
                     Line("Current threshold=", <<guidance[2].current_threshold,
                                                  guidance[2].suggested_threshold,
                                                  guidance[2].confidence>>),
                     Line("Rationale:", <<guidance[2].rationale>>)>>
               \o (IF guidance[2].confidence = "low"
                   THEN <<Line("Guardrail: recommendation withheld until sample size is sufficient.", <<>>)>>
                   ELSE <<>>))

\* ------------------------------------------------------------------------
\* Factoid and FactoidStore
\* ------------------------------------------------------------------------

IS == "is"

ARE == "are"

\* Factoid whose __post_init__ keeps the case of the key
Factoid_keeps_case(key, value, factoid_type, source) ==
    IF key = <<>> \/ Strip(key, Whitespace) = <<>> THEN Raise("ValueError")
    ELSE IF value = <<>> \/ Strip(value, Whitespace) = <<>> THEN Raise("ValueError")
    ELSE Ok([key |-> Strip(key, Whitespace),
             value |-> Strip(value, Whitespace),
             factoid_type |-> factoid_type,
             source |-> source])

\* Factoid(...) validating the key only
Factoid_accepts_empty_value(key, value, factoid_type, source) ==
    IF key = <<>> \/ Strip(key, Whitespace) = <<>> THEN Raise("ValueError")
    ELSE Ok([key |-> Lower(Strip(key, Whitespace)),
             value |-> Strip(value, Whitespace),
             factoid_type |-> factoid_type,
             source |-> source])

\* Factoid(key, value, factoid_type, source): __post_init__ validates and
\* normalizes; timestamps are not modelled.
Factoid(key, value, factoid_type, source) ==
    IF key = <<>> \/ Strip(key, Whitespace) = <<>> THEN Raise("ValueError")
    ELSE IF value = <<>> \/ Strip(value, Whitespace) = <<>> THEN Raise("ValueError")
    ELSE Ok([key |-> Lower(Strip(key, Whitespace)),
             value |-> Strip(value, Whitespace),
             factoid_type |-> factoid_type,
             source |-> source])

\* FactoidStore.get looking the key up under any type
store_get_ignores_type(rows, key, factoid_type) ==
    {r \in rows : r.key = Lower(Strip(key, Whitespace))}

\* FactoidStore.get(key, factoid_type) on the rows of the factoids table:
\* the set of matching rows (empty, or one row under the primary key)
store_get(rows, key, factoid_type) ==
    {r \in rows : r.key = Lower(Strip(key, Whitespace)) /\ r.factoid_type = factoid_type}

\* How the database answers one FactoidStore.create call: "ok", "fail" (a
\* statement raises before anything is written) or "fail_commit" (the INSERT
\* ran and stays visible on this connection, commit raises).
StoreOutcomes == {"ok", "fail", "fail_commit"}

\* FactoidStore.create(factoid): the rows afterwards and what the call raised
store_create(rows, factoid, outcome) ==
    IF outcome = "fail" THEN [rows |-> rows, raised |-> "Exception"]
    ELSE IF store_get(rows, factoid.key, factoid.factoid_type) # {}
    THEN [rows |-> rows, raised |-> "FactoidExistsError"]
    ELSE IF outcome = "fail_commit"
    THEN [rows |-> rows \cup {factoid}, raised |-> "Exception"]
    ELSE [rows |-> rows \cup {factoid}, raised |-> "none"]

\* One coroutine of FactoidStore.create between two of its await points, on a
\* connection that other coroutines use: the existence lookup ("get"), the
\* INSERT, which the PRIMARY KEY (key, type) of the factoids table rejects
\* when a row of the pair is there, and the commit.  Returns the rows and the
\* task afterwards.
store_create_step(rows, factoid, task) ==
    IF task.pc = "get"
    THEN IF store_get(rows, factoid.key, factoid.factoid_type) # {}
         THEN [rows |-> rows, task |-> [pc |-> "done", raised |-> "FactoidExistsError"]]
         ELSE [rows |-> rows, task |-> [task EXCEPT !.pc = "insert"]]
    ELSE IF task.pc = "insert"
    THEN IF \E r \in rows : r.key = factoid.key /\ r.factoid_type = factoid.factoid_type
         THEN [rows |-> rows, task |-> [pc |-> "done", raised |-> "IntegrityError"]]
         ELSE [rows |-> rows \cup {factoid}, task |-> [task EXCEPT !.pc = "commit"]]
    ELSE [rows |-> rows, task |-> [pc |-> "done", raised |-> "none"]]

\* ------------------------------------------------------------------------
\* import_factoid_file: the body of the line loop
\* ------------------------------------------------------------------------

\* What one diagnostics snapshot reports (emit_quality_diagnostics), with the
\* clock reading of the emission.
emit_quality_diagnostics(stats, file, now) ==
    [file |-> file, parsed |-> stats.parsed, imported |-> stats.imported,
     rejected |-> stats.rejected_candidates, buckets |-> stats.quality_buckets,
     mono |-> now]

\* line_text without line.strip(" \t\r\n")
line_text_unstripped(raw_line) ==
    LET line == raw_line
        result == parse_factoid_line(line)
        key == IF result = None THEN <<>> ELSE clean_irc_formatting(result[1])
        value == IF result = None THEN <<>> ELSE clean_irc_formatting(result[2])
        quality_score == calculate_quality_score(key, value)
    IN [line |-> line, result |-> result, key |-> key, value |-> value,
        quality_score |-> quality_score,
        sample |-> build_quality_sample("", 0, key, value, quality_score)]

\* Lines 957-977 and 985-991: the text processing of one line, which depends
\* on the line alone: strip, parse, clean both sides, score, preview.
line_text(raw_line) ==
    LET line == Strip(raw_line, PlainWhitespace)
        result == parse_factoid_line(line)
        key == IF result = None THEN <<>> ELSE clean_irc_formatting(result[1])
        value == IF result = None THEN <<>> ELSE clean_irc_formatting(result[2])
        quality_score == calculate_quality_score(key, value)
    IN [line |-> line, result |-> result, key |-> key, value |-> value,
        quality_score |-> quality_score,
        sample |-> build_quality_sample("", 0, key, value, quality_score)]

\* the accept decision taken for scores above the threshold only
is_accepted_above_threshold(quality_score, quality_threshold) ==
    quality_score > quality_threshold

\* Line 977: is_accepted = quality_score >= quality_threshold
is_accepted_at(quality_score, quality_threshold) == quality_score >= quality_threshold

\* process_unparsed_line going through the cadence check of line 1003
process_unparsed_line_checking_cadence(c, counted, p, t, now) ==
    LET skipped == IF t.line = <<>> THEN counted
                   ELSE [counted EXCEPT !.skipped_invalid = @ + 1]
        emit == should_emit_quality_diagnostics(skipped,
                    skipped.parsed - c.last_diagnostic_parsed,
                    now - c.last_diagnostic_mono, p.parsed_interval, p.seconds_interval)
    IN [c EXCEPT !.stats = skipped,
                 !.last_diagnostic_parsed = IF emit THEN skipped.parsed ELSE @,
                 !.last_diagnostic_mono = IF emit THEN now ELSE @,
                 !.diagnostics = IF emit
                                 THEN Append(@, emit_quality_diagnostics(skipped, p.file, now))
                                 ELSE @]

\* Lines 957-967: a line that is empty after the strip, or that
\* parse_factoid_line rejects, with total_lines counted already; the clock,
\* at now, is not read.
process_unparsed_line(c, counted, p, t, now) ==
    IF t.line = <<>> THEN [c EXCEPT !.stats = counted]
    ELSE [c EXCEPT !.stats = [counted EXCEPT !.skipped_invalid = @ + 1]]

\* Lines 955-1024: one line of the file up to the accept/reject decision.
\* c holds stats, quality_rng, last_diagnostic_parsed, last_diagnostic_mono,
\* diagnostics and pending; p the parameters of the call; t = line_text(raw_line).
process_line(c, p, line_num, t, now) ==
    LET counted == [c.stats EXCEPT !.total_lines = @ + 1]
    IN IF t.line = <<>> \/ t.result = None
       THEN process_unparsed_line(c, counted, p, t, now)
       ELSE
       LET parsed == [counted EXCEPT !.parsed = @ + 1]
           is_accepted == is_accepted_at(t.quality_score, p.quality_threshold)
           aggregated == update_quality_aggregates(parsed, t.quality_score, is_accepted)
           quality_sample ==
               [t.sample EXCEPT !.source_file = p.file, !.line_number = line_num]
           recorded == record_quality_sample(aggregated, quality_sample, is_accepted,
                                             p.sample_cap, c.quality_rng)
           parsed_since_last == recorded.stats.parsed - c.last_diagnostic_parsed
           elapsed_seconds == now - c.last_diagnostic_mono
           emit == should_emit_quality_diagnostics(recorded.stats, parsed_since_last,
                       elapsed_seconds, p.parsed_interval, p.seconds_interval)
       IN [ stats |-> IF is_accepted THEN recorded.stats
                      ELSE [recorded.stats EXCEPT !.skipped_low_quality = @ + 1],
            quality_rng |-> recorded.rng,
            last_diagnostic_parsed |->
                IF emit THEN recorded.stats.parsed ELSE c.last_diagnostic_parsed,
            last_diagnostic_mono |-> IF emit THEN now ELSE c.last_diagnostic_mono,
            diagnostics |->
                IF emit
                THEN Append(c.diagnostics, emit_quality_diagnostics(recorded.stats, p.file, now))
                ELSE c.diagnostics,
            pending |-> IF is_accepted
                        THEN Some([key |-> t.key, value |-> t.value, line_num |-> line_num])
                        ELSE None ]

\* persist_line with the ValueError handler ahead of the FactoidExistsError
\* handler: FactoidExistsError is a ValueError
persist_line_exists_is_error(stats, rows, p, pending, outcome) ==
    LET factoid == Factoid(pending.key, pending.value, p.file, <<"legacy", p.file>>)
    IN IF ~IsOk(factoid)
       THEN [stats |-> [stats EXCEPT !.errors = @ + 1], rows |-> rows]
       ELSE LET created == store_create(rows, factoid[2], outcome)
            IN [stats |->
                    IF created.raised = "none" THEN [stats EXCEPT !.imported = @ + 1]
                    ELSE [stats EXCEPT !.errors = @ + 1],
                rows |-> created.rows]

\* persist_line with the ValueError of Factoid(...) logged and not counted
persist_line_value_error_uncounted(stats, rows, p, pending, outcome) ==
    LET factoid == Factoid(pending.key, pending.value, p.file, <<"legacy", p.file>>)
    IN IF ~IsOk(factoid)
       THEN [stats |-> stats, rows |-> rows]
       ELSE LET created == store_create(rows, factoid[2], outcome)
            IN [stats |->
                    IF created.raised = "none" THEN [stats EXCEPT !.imported = @ + 1]
                    ELSE IF created.raised = "FactoidExistsError"
                    THEN [stats EXCEPT !.duplicates = @ + 1]
                    ELSE [stats EXCEPT !.errors = @ + 1],
                rows |-> created.rows]

\* Lines 1026-1050: the persistence attempt of an accepted line.
\* Returns the stats and the rows of the store afterwards.
persist_line(stats, rows, p, pending, outcome) ==
    LET factoid == Factoid(pending.key, pending.value, p.file, <<"legacy", p.file>>)
    IN IF ~IsOk(factoid)
       THEN [stats |-> [stats EXCEPT !.errors = @ + 1], rows |-> rows]
       ELSE LET created == store_create(rows, factoid[2], outcome)
            IN [stats |->
                    IF created.raised = "none" THEN [stats EXCEPT !.imported = @ + 1]
                    ELSE IF created.raised = "FactoidExistsError"
                    THEN [stats EXCEPT !.duplicates = @ + 1]
                    ELSE [stats EXCEPT !.errors = @ + 1],
                rows |-> created.rows]

\* ------------------------------------------------------------------------
\* Bounds and inputs
\* ------------------------------------------------------------------------

\* lines read in one run, over all its files
MaxLines == 3

\* database faults injected in one run
MaxFaults == 1

\* jumps of the monotonic clock in one run
MaxJumps == 2

\* "\n"-terminated lines a legacy file may hold
LINE_BLANK == <<" ", "\n">>

LINE_INVALID == <<"n", "o", "\n">>

\* "py => a language": clean one-word key, value of 10 characters
LINE_PY == <<"p", "y", " ", "=", ">", " ", "a", " ", "l", "a", "n", "g", "u", "a", "g", "e", "\n">>

\* "Py => the \x02big\x02 snake": the same key after normalization
LINE_PY_BOLD == <<"P", "y", " ", "=", ">", " ", "t", "h", "e", " ", BOLD, "b", "i", "g", BOLD,
                  " ", "s", "n", "a", "k", "e", "\n">>

\* "t => hi": value shorter than 3 characters
LINE_SHORT == <<"t", " ", "=", ">", " ", "h", "i", "\n">>

\* "\x0f => a language": the key is empty after clean_irc_formatting
LINE_CONTROL_KEY == <<OTHER_CONTROL, " ", "=", ">", " ", "a", " ", "l", "a", "n", "g", "u", "a", "g", "e", "\n">>

\* "py => \x0f": the value is empty after clean_irc_formatting
LINE_CONTROL_VALUE == <<"p", "y", " ", "=", ">", " ", OTHER_CONTROL, "\n">>

Corpus ==
    {LINE_BLANK, LINE_INVALID, LINE_PY, LINE_PY_BOLD, LINE_SHORT, LINE_CONTROL_KEY,
     LINE_CONTROL_VALUE}

\* an unparsable line, an accepted line and a rejected line
CoreCorpus == {LINE_INVALID, LINE_PY, LINE_SHORT}

\* lines whose keys collide or are empty, and a blank line
KeyCorpus == {LINE_BLANK, LINE_PY, LINE_PY_BOLD, LINE_CONTROL_KEY}

\* lines accepted at threshold 0.0 only, among them one with an empty value
LowCorpus == {LINE_PY, LINE_SHORT, LINE_CONTROL_VALUE}

\* lines that are not accepted
RejectedCorpus == {LINE_INVALID, LINE_SHORT}

\* an accepted line and a rejected line
PairCorpus == {LINE_PY, LINE_SHORT}

\* a blank line, an unparsable line and an accepted line
MixedCorpus == {LINE_BLANK, LINE_INVALID, LINE_PY}

\* line_text of every line of the corpus
LineText == [raw_line \in Corpus |-> line_text(raw_line)]

\* quality thresholds in hundredths: -0.01, 0.0, 0.30, 1.01
Thresholds == {-1, 0, 30, 101}

EnvSampleCaps == {None, EnvInt(0), EnvInt(1), EnvInt(-1), EnvGarbage}

EnvRngSeeds == {None, EnvInt(7), EnvGarbage}

\* <<diagnostic_parsed_interval, diagnostic_seconds_interval>>
DEFAULT_CADENCE ==
    <<DEFAULT_DIAGNOSTIC_PARSED_INTERVAL, DEFAULT_DIAGNOSTIC_SECONDS_INTERVAL>>

Cadences ==
    {<<0, DEFAULT_DIAGNOSTIC_SECONDS_INTERVAL>>, <<2, 0>>,
     <<2, DEFAULT_DIAGNOSTIC_SECONDS_INTERVAL>>, DEFAULT_CADENCE}

\* advances of the injected monotonic clock between two readings: a clock
\* that stands still, and one that may jump by the time cadence
FROZEN == {0}

JUMPING == {0, DEFAULT_DIAGNOSTIC_SECONDS_INTERVAL}

\* min_sample_size arguments of build_threshold_guidance
MinSampleSizes == {0, 2}

\* guidance_min_sample_size default of render_import_summary
DEFAULT_GUIDANCE_MIN_SAMPLE_SIZE == 50

Entries == {"main", "import_legacy_data", "import_factoid_file"}

\* One call with its environment.  A direct import_factoid_file call passes
\* stats=None, sample_cap=None and rng=None and imports one IS file;
\* import_legacy_data always runs import_factoid_file with the default cadence.
\* corpus is the set of lines the files may hold, clock_steps and db_faults
\* describe the injected clock and the database.
Config(e, t, cap, seed, cad, bn, ex1, ex2, lines, steps, faults) ==
    [entry |-> e, quality_threshold |-> t, env_sample_cap |-> cap, env_rng_seed |-> seed,
     parsed_interval |-> cad[1], seconds_interval |-> cad[2],
     botname |-> bn, is_exists |-> ex1, are_exists |-> ex2,
     corpus |-> lines, clock_steps |-> steps, db_faults |-> faults]

\* the first configuration check that raises, in the order of lines 934-940
\* and 1077-1079 (the cadence is checked by import_factoid_file only)
ConfigError(c, with_cadence) ==
    \/ ~IsOk(validate_quality_threshold(c.quality_threshold))
    \/ with_cadence /\ ~IsOk(validate_diagnostic_cadence(c.parsed_interval, c.seconds_interval))
    \/ ~IsOk(resolve_legacy_import_sample_cap(c.env_sample_cap))
    \/ ~IsOk(resolve_legacy_import_rng_seed(c.env_rng_seed))

\* The calls the model starts from.
Configs ==
    \* direct calls: every threshold, sample cap and seed
    { Config("import_factoid_file", t, cap, seed, DEFAULT_CADENCE, TRUE, TRUE, FALSE,
             CoreCorpus, FROZEN, FALSE) :
         t \in Thresholds, cap \in EnvSampleCaps, seed \in EnvRngSeeds }
    \* direct calls: every cadence, under both clocks
    \cup { Config("import_factoid_file", 30, None, None, cad, TRUE, TRUE, FALSE,
                  CoreCorpus, steps, FALSE) :
              cad \in Cadences, steps \in {FROZEN, JUMPING} }
    \* direct calls: colliding and empty keys, a database that may fail
    \cup { Config("import_factoid_file", 30, EnvInt(1), None, DEFAULT_CADENCE, TRUE, TRUE, FALSE,
                  KeyCorpus, FROZEN, TRUE) }
    \* direct calls: threshold 0.0, an empty value
    \cup { Config("import_factoid_file", 0, EnvInt(1), None, DEFAULT_CADENCE, TRUE, TRUE, FALSE,
                  LowCorpus, FROZEN, FALSE) }
    \* direct calls: a file that does not exist
    \cup { Config("import_factoid_file", 30, EnvInt(1), None, DEFAULT_CADENCE, TRUE, FALSE, FALSE,
                  CoreCorpus, FROZEN, FALSE) }
    \* direct calls: blank, unparsable and accepted lines in one file
    \cup { Config("import_factoid_file", 30, EnvInt(1), None, DEFAULT_CADENCE, TRUE, TRUE, FALSE,
                  MixedCorpus, FROZEN, FALSE) }
    \* direct calls: threshold 0.70, the score of the accepted line
    \cup { Config("import_factoid_file", 70, EnvInt(1), None, DEFAULT_CADENCE, TRUE, TRUE, FALSE,
                  PairCorpus, FROZEN, FALSE) }
    \* corpus imports: every threshold, sample cap and seed that is rejected
    \cup { c \in { Config("import_legacy_data", t, cap, seed, DEFAULT_CADENCE, TRUE, TRUE, TRUE,
                          CoreCorpus, FROZEN, FALSE) :
                      t \in Thresholds, cap \in EnvSampleCaps, seed \in EnvRngSeeds } :
              ConfigError(c, FALSE) }
    \* corpus imports: colliding and empty keys over both files
    \cup { Config("import_legacy_data", 30, EnvInt(1), None, DEFAULT_CADENCE, TRUE, TRUE, TRUE,
                  KeyCorpus, FROZEN, FALSE) }
    \* corpus imports: a database that may fail
    \cup { Config("import_legacy_data", 30, EnvInt(1), None, DEFAULT_CADENCE, TRUE, TRUE, TRUE,
                  PairCorpus, FROZEN, TRUE) }
    \* corpus imports: a clock that may jump
    \cup { Config("import_legacy_data", 30, EnvInt(1), None, DEFAULT_CADENCE, TRUE, TRUE, TRUE,
                  RejectedCorpus, JUMPING, FALSE) }
    \* corpus imports: every outcome of the file discovery
    \cup { Config("import_legacy_data", 30, EnvInt(1), None, DEFAULT_CADENCE, bn, ex1, ex2,
                  CoreCorpus, FROZEN, FALSE) :
              bn \in BOOLEAN, ex1 \in BOOLEAN, ex2 \in BOOLEAN }
    \* the command line: every threshold and environment value
    \cup { Config("main", t, cap, seed, DEFAULT_CADENCE, TRUE, TRUE, FALSE,
                  CoreCorpus, FROZEN, FALSE) :
              t \in Thresholds, cap \in {None, EnvInt(-1), EnvGarbage},
              seed \in {None, EnvGarbage} }

\* ------------------------------------------------------------------------
\* State
\* ------------------------------------------------------------------------

VARIABLES
    cfg,                    \* arguments and environment of the call
    pc,                     \* control position of the call
    file,                   \* type of the file being imported, "none" outside
    line_num,               \* line_num of the line loop
    stats,                  \* the ImportStats accumulator
    quality_rng,            \* state of the sampling generator
    sample_cap,             \* resolved_sample_cap
    store,                  \* rows of the factoids table
    db,                     \* "unopened", "connected" or "closed"
    opened,                 \* files import_factoid_file has opened
    pending,                \* accepted record awaiting store.create
    clock,                  \* last reading of the monotonic clock
    last_diagnostic_parsed,
    last_diagnostic_mono,
    diagnostics,            \* snapshots emitted so far
    guidance,               \* result of build_threshold_guidance
    hist,                   \* history of the run: lines read, faults, file starts
    twin,                   \* a second run over the same lines, None when there is none
    call                    \* one call of a function on its own: arguments and result

vars ==
    <<cfg, pc, file, line_num, stats, quality_rng, sample_cap, store, db, opened,
      pending, clock, last_diagnostic_parsed, last_diagnostic_mono, diagnostics,
      guidance, hist, twin, call>>

\* no function is called on its own
NoCall == [fn |-> "none"]

\* the state before the call, whatever the call is
Start ==
    /\ pc = "start"
    /\ file = "none"
    /\ line_num = 0
    /\ stats = ImportStats
    /\ quality_rng = 0
    /\ sample_cap = 0
    /\ store = {}
    /\ db = "unopened"
    /\ opened = {}
    /\ pending = None
    /\ clock = 0
    /\ last_diagnostic_parsed = 0
    /\ last_diagnostic_mono = 0
    /\ diagnostics = <<>>
    /\ guidance = None
    /\ hist = [lines |-> <<>>, faults |-> 0, jumps |-> 0, read_failures |-> <<>>,
               starts |-> <<>>, connect_failures |-> 0]

Init ==
    /\ cfg \in Configs
    /\ Start
    /\ twin = None
    /\ call = NoCall

\* ------------------------------------------------------------------------
\* Operations
\* ------------------------------------------------------------------------

\* where control goes when import_factoid_file returns from file f
AfterFile(f) ==
    IF cfg.entry = "import_factoid_file" THEN "returned"
    ELSE IF f = IS THEN "are_file" ELSE "close"

FileExists(f) == IF f = IS THEN cfg.is_exists ELSE cfg.are_exists

\* main(), lines 1185-1200: validation, then the call of import_legacy_data
CallMain ==
    /\ pc = "start"
    /\ cfg.entry = "main"
    /\ pc' = IF ConfigError(cfg, FALSE) THEN "raised" ELSE "import_legacy_data"
    /\ UNCHANGED <<cfg, file, line_num, stats, quality_rng, sample_cap, store, db, opened,
                   pending, clock, last_diagnostic_parsed, last_diagnostic_mono,
                   diagnostics, guidance, hist, twin, call>>

\* import_legacy_data, lines 1088-1097: a bot name is given or the directory
\* holds one of the two files
Discovered == cfg.botname \/ cfg.is_exists \/ cfg.are_exists

\* import_legacy_data raising as soon as one of the two files is missing
ImportLegacyDataStep_requires_both_files(connects) ==
    /\ \/ pc = "start" /\ cfg.entry = "import_legacy_data"
       \/ pc = "import_legacy_data"
    /\ ~connects => cfg.db_faults
    /\ IF ConfigError(cfg, FALSE)
       THEN /\ pc' = "raised"
            /\ UNCHANGED <<stats, quality_rng, sample_cap, db>>
       ELSE IF ~cfg.is_exists \/ ~cfg.are_exists
       THEN /\ pc' = "raised"
            /\ sample_cap' = resolve_legacy_import_sample_cap(cfg.env_sample_cap)[2]
            /\ quality_rng' = build_quality_rng(resolve_legacy_import_rng_seed(cfg.env_rng_seed)[2])
            /\ UNCHANGED <<stats, db>>
       ELSE IF ~connects
       THEN /\ pc' = "raised"
            /\ sample_cap' = resolve_legacy_import_sample_cap(cfg.env_sample_cap)[2]
            /\ quality_rng' = build_quality_rng(resolve_legacy_import_rng_seed(cfg.env_rng_seed)[2])
            /\ UNCHANGED <<stats, db>>
       ELSE /\ pc' = "is_file"
            /\ sample_cap' = resolve_legacy_import_sample_cap(cfg.env_sample_cap)[2]
            /\ quality_rng' = build_quality_rng(resolve_legacy_import_rng_seed(cfg.env_rng_seed)[2])
            /\ db' = "connected"
            /\ stats' = ImportStats
    /\ hist' = [hist EXCEPT !.connect_failures =
                    IF ~ConfigError(cfg, FALSE) /\ Discovered /\ ~connects THEN @ + 1 ELSE @]
    /\ UNCHANGED <<cfg, file, line_num, store, opened, pending, clock,
                   last_diagnostic_parsed, last_diagnostic_mono, diagnostics,
                   guidance>>

\* import_legacy_data, lines 1077-1114: validation, file discovery, database.
\* connects tells whether conn.connect() and initialize_schema succeed; when
\* they do not, their exception leaves the call.
ImportLegacyDataStep(connects) ==
    /\ \/ pc = "start" /\ cfg.entry = "import_legacy_data"
       \/ pc = "import_legacy_data"
    /\ ~connects => cfg.db_faults
    /\ IF ConfigError(cfg, FALSE)
       THEN /\ pc' = "raised"
            /\ UNCHANGED <<stats, quality_rng, sample_cap, db>>
       ELSE IF ~Discovered
       THEN /\ pc' = "raised"
            /\ sample_cap' = resolve_legacy_import_sample_cap(cfg.env_sample_cap)[2]
            /\ quality_rng' = build_quality_rng(resolve_legacy_import_rng_seed(cfg.env_rng_seed)[2])
            /\ UNCHANGED <<stats, db>>
       ELSE IF ~connects
       THEN /\ pc' = "raised"
            /\ sample_cap' = resolve_legacy_import_sample_cap(cfg.env_sample_cap)[2]
            /\ quality_rng' = build_quality_rng(resolve_legacy_import_rng_seed(cfg.env_rng_seed)[2])
            /\ UNCHANGED <<stats, db>>
       ELSE /\ pc' = "is_file"
            /\ sample_cap' = resolve_legacy_import_sample_cap(cfg.env_sample_cap)[2]
            /\ quality_rng' = build_quality_rng(resolve_legacy_import_rng_seed(cfg.env_rng_seed)[2])
            /\ db' = "connected"
            /\ stats' = ImportStats
    /\ hist' = [hist EXCEPT !.connect_failures =
                    IF ~ConfigError(cfg, FALSE) /\ Discovered /\ ~connects THEN @ + 1 ELSE @]
    /\ UNCHANGED <<cfg, file, line_num, store, opened, pending, clock,
                   last_diagnostic_parsed, last_diagnostic_mono, diagnostics,
                   guidance>>

ImportLegacyData ==
    \E connects \in BOOLEAN : ImportLegacyDataStep(connects) /\ UNCHANGED <<twin, call>>

\* import_legacy_data, lines 1117 and 1128: a file that is absent is skipped
SkipFileStep ==
    /\ pc \in {"is_file", "are_file"}
    /\ LET f == IF pc = "is_file" THEN IS ELSE ARE
       IN /\ ~FileExists(f)
          /\ pc' = AfterFile(f)
    /\ UNCHANGED <<cfg, file, line_num, stats, quality_rng, sample_cap, store, db, opened,
                   pending, clock, last_diagnostic_parsed, last_diagnostic_mono,
                   diagnostics, guidance, hist>>

SkipFile == SkipFileStep /\ UNCHANGED <<twin, call>>

\* import_factoid_file starting every file on a fresh accumulator
initial_stats_fresh(direct, total_stats) == ImportStats

\* import_factoid_file, lines 942-943: the accumulator of the call; a direct
\* call passes stats=None, import_legacy_data passes its total_stats
initial_stats(direct, total_stats) == IF direct THEN ImportStats ELSE total_stats

\* import_factoid_file, lines 934-953: validation, baselines, open; the clock
\* has advanced by adv when it is read
BeginFileStep(adv) ==
    LET direct == cfg.entry = "import_factoid_file"
        f == IF pc = "are_file" THEN ARE ELSE IS
        started == initial_stats(direct, stats)
    IN /\ \/ pc = "start" /\ direct
          \/ pc \in {"is_file", "are_file"} /\ FileExists(f)
       /\ adv # 0 => hist.jumps < MaxJumps
       /\ IF ConfigError(cfg, TRUE)
          THEN /\ pc' = "raised"
               /\ db' = IF direct THEN db ELSE "closed"
               /\ UNCHANGED <<file, line_num, stats, quality_rng, sample_cap, opened, clock,
                              last_diagnostic_parsed, last_diagnostic_mono, hist>>
          ELSE /\ stats' = started
               /\ sample_cap' = IF direct
                                THEN resolve_legacy_import_sample_cap(cfg.env_sample_cap)[2]
                                ELSE sample_cap
               /\ quality_rng' =
                      IF direct
                      THEN build_quality_rng(resolve_legacy_import_rng_seed(cfg.env_rng_seed)[2])
                      ELSE quality_rng
               /\ clock' = clock + adv
               /\ last_diagnostic_parsed' = started.parsed
               /\ last_diagnostic_mono' = clock'
               /\ hist' = [hist EXCEPT
                             !.starts = Append(@, [file |-> f, parsed |-> started.parsed,
                                                   mono |-> clock']),
                             !.jumps = IF adv = 0 THEN @ ELSE @ + 1]
               /\ UNCHANGED db
               /\ IF FileExists(f)
                  THEN /\ pc' = "reading"
                       /\ file' = f
                       /\ line_num' = 0
                       /\ opened' = opened \cup {f}
                  ELSE /\ pc' = "returned"
                       /\ UNCHANGED <<file, line_num, opened>>
       /\ UNCHANGED <<cfg, store, pending, diagnostics, guidance>>

BeginFile == \E adv \in cfg.clock_steps : BeginFileStep(adv) /\ UNCHANGED <<twin, call>>

\* the parameters of the running import_factoid_file call
Par ==
    [file |-> file, quality_threshold |-> cfg.quality_threshold, sample_cap |-> sample_cap,
     parsed_interval |-> cfg.parsed_interval, seconds_interval |-> cfg.seconds_interval]

\* the loop state of the running import_factoid_file call
Ctx ==
    [stats |-> stats, quality_rng |-> quality_rng,
     last_diagnostic_parsed |-> last_diagnostic_parsed,
     last_diagnostic_mono |-> last_diagnostic_mono,
     diagnostics |-> diagnostics, pending |-> pending]

\* the line loop going on to the next line while store.create is outstanding
ReadLineStep_not_awaiting(raw_line, t, adv) ==
    /\ pc \in {"reading", "creating"}
    /\ Len(hist.lines) < MaxLines
    /\ adv # 0 => hist.jumps < MaxJumps
    /\ LET c == process_line(Ctx, Par, line_num + 1, t, clock + adv)
       IN /\ stats' = c.stats
          /\ quality_rng' = c.quality_rng
          /\ last_diagnostic_parsed' = c.last_diagnostic_parsed
          /\ last_diagnostic_mono' = c.last_diagnostic_mono
          /\ diagnostics' = c.diagnostics
          /\ pending' = c.pending
          /\ pc' = IF c.pending = None THEN "reading" ELSE "creating"
    /\ line_num' = line_num + 1
    /\ clock' = clock + adv
    /\ hist' = [hist EXCEPT !.lines = Append(@, [file |-> file, line |-> raw_line]),
                            !.jumps = IF adv = 0 THEN @ ELSE @ + 1]
    /\ UNCHANGED <<cfg, file, sample_cap, store, db, opened, guidance>>

\* import_factoid_file, lines 954-1024: the next line of the file is raw_line,
\* t = line_text(raw_line), and the clock has advanced by adv when it is read
ReadLineStep(raw_line, t, adv) ==
    /\ pc = "reading"
    /\ Len(hist.lines) < MaxLines
    /\ adv # 0 => hist.jumps < MaxJumps
    /\ LET c == process_line(Ctx, Par, line_num + 1, t, clock + adv)
       IN /\ stats' = c.stats
          /\ quality_rng' = c.quality_rng
          /\ last_diagnostic_parsed' = c.last_diagnostic_parsed
          /\ last_diagnostic_mono' = c.last_diagnostic_mono
          /\ diagnostics' = c.diagnostics
          /\ pending' = c.pending
          /\ pc' = IF c.pending = None THEN "reading" ELSE "creating"
    /\ line_num' = line_num + 1
    /\ clock' = clock + adv
    /\ hist' = [hist EXCEPT !.lines = Append(@, [file |-> file, line |-> raw_line]),
                            !.jumps = IF adv = 0 THEN @ ELSE @ + 1]
    /\ UNCHANGED <<cfg, file, sample_cap, store, db, opened, guidance>>

ReadLine ==
    \E raw_line \in cfg.corpus, adv \in cfg.clock_steps :
        ReadLineStep(raw_line, LineText[raw_line], adv) /\ UNCHANGED <<twin, call>>

\* import_factoid_file, lines 1026-1050: Factoid(...) and await store.create,
\* which the database answers with outcome
CreateFactoidStep(outcome) ==
    /\ pc = "creating"
    /\ outcome # "ok" =>
          /\ cfg.db_faults
          /\ hist.faults < MaxFaults
          /\ IsOk(Factoid(pending[1].key, pending[1].value, file, <<"legacy", file>>))
          /\ outcome = "fail_commit" => store_get(store, pending[1].key, file) = {}
    /\ LET r == persist_line(stats, store, Par, pending[1], outcome)
       IN /\ stats' = r.stats
          /\ store' = r.rows
    /\ pending' = None
    /\ pc' = "reading"
    /\ hist' = [hist EXCEPT !.faults = IF outcome = "ok" THEN @ ELSE @ + 1]
    /\ UNCHANGED <<cfg, file, line_num, quality_rng, sample_cap, db, opened, clock,
                   last_diagnostic_parsed, last_diagnostic_mono, diagnostics, guidance>>

CreateFactoid == \E outcome \in StoreOutcomes : CreateFactoidStep(outcome) /\ UNCHANGED <<twin, call>>

\* import_factoid_file with no handler around the file: the failure leaves
\* the call and import_legacy_data through its finally clause
ReadFailStep_propagates ==
    /\ pc = "reading"
    /\ pc' = IF cfg.entry = "import_factoid_file" THEN "raised" ELSE "close"
    /\ file' = "none"
    /\ hist' = [hist EXCEPT !.read_failures = Append(@, [file |-> file, after |-> line_num])]
    /\ UNCHANGED <<cfg, line_num, stats, quality_rng, sample_cap, store, db, opened, pending,
                   clock, last_diagnostic_parsed, last_diagnostic_mono, diagnostics, guidance>>

\* import_factoid_file, lines 1052-1057: open() or the line iterator raises
ReadFailStep ==
    /\ pc = "reading"
    /\ stats' = refresh_quality_percentiles([stats EXCEPT !.errors = @ + 1])
    /\ pc' = AfterFile(file)
    /\ file' = "none"
    /\ hist' = [hist EXCEPT !.read_failures = Append(@, [file |-> file, after |-> line_num])]
    /\ UNCHANGED <<cfg, line_num, quality_rng, sample_cap, store, db, opened, pending, clock,
                   last_diagnostic_parsed, last_diagnostic_mono, diagnostics, guidance>>

ReadFail == ReadFailStep /\ UNCHANGED <<twin, call>>

\* import_factoid_file, lines 1056-1057: the file is exhausted
EndOfFileStep ==
    /\ pc = "reading"
    /\ stats' = refresh_quality_percentiles(stats)
    /\ pc' = AfterFile(file)
    /\ file' = "none"
    /\ UNCHANGED <<cfg, line_num, quality_rng, sample_cap, store, db, opened, pending, clock,
                   last_diagnostic_parsed, last_diagnostic_mono, diagnostics, guidance, hist>>

EndOfFile == EndOfFileStep /\ UNCHANGED <<twin, call>>

\* import_legacy_data, lines 1139-1142: finally conn.close(), return
CloseDbStep ==
    /\ pc = "close"
    /\ db' = "closed"
    /\ pc' = "returned"
    /\ UNCHANGED <<cfg, file, line_num, stats, quality_rng, sample_cap, store, opened,
                   pending, clock, last_diagnostic_parsed, last_diagnostic_mono,
                   diagnostics, guidance, hist>>

CloseDb == CloseDbStep /\ UNCHANGED <<twin, call>>

\* build_threshold_guidance on the returned stats; main reaches it through
\* render_import_summary with the default minimum sample size
Guidance ==
    \E min_sample_size \in MinSampleSizes \cup {DEFAULT_GUIDANCE_MIN_SAMPLE_SIZE} :
    /\ pc = "returned"
    /\ (cfg.entry = "main") = (min_sample_size = DEFAULT_GUIDANCE_MIN_SAMPLE_SIZE)
    /\ LET g == build_threshold_guidance(stats, cfg.quality_threshold, min_sample_size)
       IN /\ guidance' = Some([min_sample_size |-> min_sample_size, result |-> g])
          /\ stats' = IF IsOk(g) THEN refresh_quality_percentiles(stats) ELSE stats
    /\ pc' = "reported"
    /\ UNCHANGED <<cfg, file, line_num, quality_rng, sample_cap, store, db, opened, pending,
                   clock, last_diagnostic_parsed, last_diagnostic_mono, diagnostics, hist,
                   twin, call>>

Next ==
    \/ CallMain
    \/ ImportLegacyData
    \/ SkipFile
    \/ BeginFile
    \/ ReadLine
    \/ CreateFactoid
    \/ ReadFail
    \/ EndOfFile
    \/ CloseDb
    \/ Guidance

Spec == Init /\ [][Next]_vars

\* ------------------------------------------------------------------------
\* Two runs over the same lines
\* ------------------------------------------------------------------------

\* The second run is given the same arguments and environment (cfg) and the
\* same lines as the first, with a clock, a database and database answers of
\* its own.  twin holds its loop state, its store and its clock.

\* sample caps and seeds of the paired runs
PairConfigs ==
    { Config(e, 30, cap, EnvInt(7), DEFAULT_CADENCE, TRUE, TRUE, e = "import_legacy_data",
             PairCorpus, FROZEN, FALSE) :
         e \in {"import_factoid_file", "import_legacy_data"},
         cap \in {EnvInt(1), EnvInt(2)} }

\* the second run before its call, on a database that holds rows already
TwinStart(rows) ==
    [stats |-> ImportStats, quality_rng |-> 0, last_diagnostic_parsed |-> 0,
     last_diagnostic_mono |-> 0, diagnostics |-> <<>>, pending |-> None,
     store |-> rows, clock |-> 0, faults |-> 0, jumps |-> 0]

\* the row an earlier import of the IS line with text t has left
ImportedRow(t) == Factoid(t.key, t.value, IS, <<"legacy", IS>>)[2]

\* the database of the second run is empty, or "py" was imported into it
InitPair ==
    /\ cfg \in PairConfigs
    /\ Start
    /\ twin \in {TwinStart(rows) : rows \in {{}, {ImportedRow(LineText[LINE_PY])}}}
    /\ call = NoCall

TwinCtx ==
    [stats |-> twin.stats, quality_rng |-> twin.quality_rng,
     last_diagnostic_parsed |-> twin.last_diagnostic_parsed,
     last_diagnostic_mono |-> twin.last_diagnostic_mono,
     diagnostics |-> twin.diagnostics, pending |-> twin.pending]

PairImportLegacyData ==
    /\ ImportLegacyDataStep(TRUE)
    /\ UNCHANGED call
    /\ twin' = [twin EXCEPT
                  !.stats = ImportStats,
                  !.quality_rng =
                      build_quality_rng(resolve_legacy_import_rng_seed(cfg.env_rng_seed)[2])]

PairBeginFile ==
    \E adv \in cfg.clock_steps :
    /\ BeginFileStep(adv)
    /\ UNCHANGED call
    /\ LET direct == cfg.entry = "import_factoid_file"
           started == initial_stats(direct, twin.stats)
       IN twin' = [twin EXCEPT
                     !.stats = started,
                     !.quality_rng =
                         IF direct
                         THEN build_quality_rng(
                                  resolve_legacy_import_rng_seed(cfg.env_rng_seed)[2])
                         ELSE @,
                     !.last_diagnostic_parsed = started.parsed,
                     !.last_diagnostic_mono = twin.clock]

\* both runs read raw_line, t = line_text(raw_line); the clock of the second
\* run has advanced by adv2
PairReadLineStep(raw_line, t, adv, adv2) ==
    /\ ReadLineStep(raw_line, t, adv)
    /\ UNCHANGED call
    /\ adv2 # 0 => twin.jumps < MaxJumps /\ t.result # None
    /\ LET c == process_line(TwinCtx, Par, line_num + 1, t, twin.clock + adv2)
       IN twin' = [twin EXCEPT
                     !.stats = c.stats,
                     !.quality_rng = c.quality_rng,
                     !.last_diagnostic_parsed = c.last_diagnostic_parsed,
                     !.last_diagnostic_mono = c.last_diagnostic_mono,
                     !.diagnostics = c.diagnostics,
                     !.pending = c.pending,
                     !.clock = @ + adv2,
                     !.jumps = IF adv2 = 0 THEN @ ELSE @ + 1]

PairReadLine ==
    \E raw_line \in cfg.corpus, adv \in cfg.clock_steps, adv2 \in JUMPING :
        PairReadLineStep(raw_line, LineText[raw_line], adv, adv2)

PairCreateFactoid ==
    \E outcome \in StoreOutcomes, outcome2 \in StoreOutcomes :
    /\ CreateFactoidStep(outcome)
    /\ UNCHANGED call
    /\ outcome2 # "ok" =>
          /\ twin.faults < MaxFaults
          /\ outcome2 = "fail_commit" => store_get(twin.store, twin.pending[1].key, file) = {}
    /\ LET r == persist_line(twin.stats, twin.store, Par, twin.pending[1], outcome2)
       IN twin' = [twin EXCEPT
                     !.stats = r.stats,
                     !.store = r.rows,
                     !.pending = None,
                     !.faults = IF outcome2 = "ok" THEN @ ELSE @ + 1]

PairReadFail ==
    /\ ReadFailStep
    /\ UNCHANGED call
    /\ twin' = [twin EXCEPT
                  !.stats = refresh_quality_percentiles([twin.stats EXCEPT !.errors = @ + 1])]

PairEndOfFile ==
    /\ EndOfFileStep
    /\ UNCHANGED call
    /\ twin' = [twin EXCEPT !.stats = refresh_quality_percentiles(twin.stats)]

PairCloseDb == CloseDbStep /\ UNCHANGED <<twin, call>>

NextPair ==
    \/ PairImportLegacyData
    \/ PairBeginFile
    \/ PairReadLine
    \/ PairCreateFactoid
    \/ PairReadFail
    \/ PairEndOfFile
    \/ PairCloseDb

SpecPair == InitPair /\ [][NextPair]_vars

\* ------------------------------------------------------------------------
\* Functions called on their own
\* ------------------------------------------------------------------------

\* A call is [fn, args, result]: result is None until the function has been
\* applied, Some(value) afterwards.  No import runs beside the call.
NoRun ==
    Config("none", 30, None, None, DEFAULT_CADENCE, FALSE, FALSE, FALSE, {}, FROZEN, FALSE)

Applied(fn) == call.fn = fn /\ call.result # None

\* largest number of candidates with one score in a population
MaxBatch == 4

\* a population has 0..MaxBatch candidates of a score, or nineteen of them
BatchSizes == 0..MaxBatch \cup {19}

\* the scores of a population, in hundredths
PopulationScores == <<0, 20, 25, 90>>

Populations == [1..Len(PopulationScores) -> BatchSizes]

\* update_quality_aggregates for count candidates of one score, as the line
\* loop calls it: a candidate is accepted when its score reaches the threshold.
\* Comparing the record makes TLC evaluate it before the next call.
RECURSIVE observe_scores(_, _, _, _)
observe_scores(acc, quality_score, count, quality_threshold) ==
    IF count = 0 THEN acc
    ELSE LET counted == update_quality_aggregates(acc, quality_score,
                                                  quality_score >= quality_threshold)
         IN IF counted = acc THEN acc
            ELSE observe_scores(counted, quality_score, count - 1, quality_threshold)

\* the stats an import at quality_threshold returns for a population, every
\* accepted candidate stored
RECURSIVE observe_population(_, _, _, _)
observe_population(acc, population, i, quality_threshold) ==
    IF i > Len(PopulationScores)
    THEN refresh_quality_percentiles(
             [acc EXCEPT !.total_lines = acc.quality_observations,
                         !.parsed = acc.quality_observations,
                         !.skipped_low_quality = acc.rejected_candidates,
                         !.imported = acc.accepted_candidates])
    ELSE observe_population(
             observe_scores(acc, PopulationScores[i], population[i], quality_threshold),
             population, i + 1, quality_threshold)

\* thresholds on a bucket boundary and inside a bucket
GuidanceThresholds == {25, 30}

GuidanceMinSampleSizes == {0, 1, 6}

GuidanceCalls ==
    { [fn |-> "build_threshold_guidance",
       args |-> [population |-> population, quality_threshold |-> t,
                 min_sample_size |-> m],
       result |-> None] :
         population \in Populations, t \in GuidanceThresholds, m \in GuidanceMinSampleSizes }

\* largest count of one bucket in a histogram
MaxBucketCount == 3

\* histograms with candidates in at most two buckets, the empty one included
Histograms ==
    { [i \in 1..QUALITY_BUCKET_COUNT |-> IF i = b1 THEN n1 ELSE IF i = b2 THEN n2 ELSE 0] :
         b1 \in 1..QUALITY_BUCKET_COUNT, b2 \in 1..QUALITY_BUCKET_COUNT,
         n1 \in 0..MaxBucketCount, n2 \in 0..MaxBucketCount }

\* the percentiles asked for: the default ones and the ends of the range
AskedPercentiles == QUALITY_PERCENTILES \cup {0, 1, 100}

PercentileCalls ==
    { [fn |-> "compute_quality_percentiles",
       args |-> [bucket_counts |-> h, percentiles |-> AskedPercentiles],
       result |-> None] : h \in Histograms }

\* keys: two clean ones and a conversational one
ScoredKeys ==
    { <<"d", "o", "c", "s">>,
      <<"p", "y", "t", "h", "o", "n">>,
      <<"w", "e", "l", "l", ",", " ", "i", " ", "t", "h", "i", "n", "k", " ", "y", "o", "u", " ", "k", "n", "o", "w", ",", " ", "r", "i", "g", "h", "t", "?">> }

URL_SCHEME == <<"h", "t", "t", "p", "s", ":", "/", "/">>

\* what a scored value has before and after the place of the URL scheme
ValueHeads ==
    { <<>>,
      <<"s", "e", "e", " ">>,
      <<"<", "r", "e", "p", "l", "y", ">", " ", "s", "e", "e", " ">> }

ValueTails ==
    { <<"e", "x", "a", "m", "p", "l", "e", ".", "c", "o", "m">>,
      <<"a", "/", "b", "/", "c", "/", "d", "e", "f", "g">>,
      <<"x">>,
      <<":", ")", " ", "o", "k", " ", "t", "h", "e", "n">> }

\* one key scored with a value and with the same value holding https://
ScoreCalls ==
    { [fn |-> "calculate_quality_score",
       args |-> [key |-> k, values |-> <<head \o tail, head \o URL_SCHEME \o tail>>],
       result |-> None] :
         k \in ScoredKeys, head \in ValueHeads, tail \in ValueTails }

\* create calls made one after the other on one store
MaxCreates == 3

\* the factoids handed to create: one key in two spellings under both types,
\* with different values, and another key
CreatedFactoids ==
    { Factoid(f[1], f[2], f[3], None)[2] :
        f \in { <<<<"p", "y">>, <<"v", "1">>, IS>>,
                <<<<"P", "y">>, <<"v", "2">>, IS>>,
                <<<<"p", "y">>, <<"v", "2">>, ARE>>,
                <<<<"t">>, <<"v", "1">>, IS>> } }

\* result holds the rows of the store and what each call so far has raised
CreateCalls ==
    { [fn |-> "FactoidStore.create",
       args |-> [factoids |-> factoids],
       result |-> Some([rows |-> {}, raised |-> <<>>])] :
         factoids \in UNION {[1..n -> CreatedFactoids] : n \in 1..MaxCreates} }

\* longest line handed to parse_factoid_line
MaxLineLen == 5

\* a letter, the two characters of the separator, a plain blank and a blank
\* that is not plain
LineAlphabet == {"a", "=", ">", " ", NBSP}

ParsedLines == UNION {[1..n -> LineAlphabet] : n \in 0..MaxLineLen}

ParseCalls ==
    { [fn |-> "parse_factoid_line", args |-> [line |-> line], result |-> None] :
         line \in ParsedLines }

\* the populations whose report is rendered
RenderedPopulations == [1..Len(PopulationScores) -> {0, 1, 19}]

\* thresholds and minimum sample sizes of the report: valid, rejected, default
RenderedThresholds == {30, 101}

RenderedMinSampleSizes == {0, 1, DEFAULT_GUIDANCE_MIN_SAMPLE_SIZE}

\* the import kept no sample or one sample of each stream
RenderedSampleCaps == {0, 1}

RenderCalls ==
    { [fn |-> "render_import_summary",
       args |-> [population |-> population, quality_threshold |-> t,
                 min_sample_size |-> m, sample_cap |-> cap],
       result |-> None] :
         population \in RenderedPopulations, t \in RenderedThresholds,
         m \in RenderedMinSampleSizes, cap \in RenderedSampleCaps }

\* longest stream of accepted lines offered to one reservoir
MaxStream == 5

\* the score of the lines of a stream, in hundredths, and their threshold
STREAM_SCORE == 90

STREAM_THRESHOLD == 30

\* a file of args.lines accepted lines, read with a reservoir of sample_cap slots
StreamCalls ==
    { [fn |-> "record_quality_sample",
       args |-> [lines |-> n, sample_cap |-> c],
       result |-> None] : n \in 0..MaxStream, c \in 0..MaxStream }

RECURSIVE Flatten(_)
Flatten(ss) == IF ss = <<>> THEN <<>> ELSE Head(ss) \o Flatten(Tail(ss))

\* Lines 977-997 for the lines after the first read lines of a stream of lines
\* accepted lines: the accepted reservoirs the file can end with, as the line
\* numbers of their samples, one reservoir for each sequence of values that
\* rng.randrange can return
RECURSIVE stream_outcomes(_, _, _, _)
stream_outcomes(acc, read, lines, cap) ==
    IF read = lines
    THEN << [k \in 1..Len(acc.accepted_samples) |-> acc.accepted_samples[k].line_number] >>
    ELSE LET is_accepted == STREAM_SCORE >= STREAM_THRESHOLD
             aggregated == update_quality_aggregates(acc, STREAM_SCORE, is_accepted)
             quality_sample ==
                 build_quality_sample(IS, read + 1, <<"p", "y">>, <<"h", "i">>,
                                      STREAM_SCORE)
             recorded == record_quality_sample_outcomes(aggregated, quality_sample,
                                                        is_accepted, cap)
         IN Flatten([d \in 1..Len(recorded) |->
                        stream_outcomes(recorded[d], read + 1, lines, cap)])

\* two create calls running as two tasks on one store, which is empty or
\* holds a row; result holds the rows and the position of each task
ConcurrentCreateCalls ==
    { [fn |-> "FactoidStore.create, two tasks",
       args |-> [rows |-> rows, factoids |-> <<a, b>>],
       result |-> Some([rows |-> rows,
                        tasks |-> [t \in 1..2 |-> [pc |-> "get", raised |-> "none"]]])] :
         rows \in {{}} \cup {{f} : f \in CreatedFactoids},
         a \in CreatedFactoids, b \in CreatedFactoids }

FunctionCalls ==
    GuidanceCalls \cup PercentileCalls \cup ScoreCalls \cup CreateCalls \cup ParseCalls
    \cup RenderCalls \cup StreamCalls \cup ConcurrentCreateCalls

InitFunctions ==
    /\ cfg = NoRun
    /\ Start
    /\ twin = None
    /\ call \in FunctionCalls

\* the variables of the import, which a function called on its own leaves alone
importVars ==
    <<cfg, pc, file, line_num, stats, quality_rng, sample_cap, store, db, opened,
      pending, clock, last_diagnostic_parsed, last_diagnostic_mono, diagnostics,
      guidance, hist, twin>>

\* the stats of the call's population
CallStats == observe_population(ImportStats, call.args.population, 1, call.args.quality_threshold)

ApplyGuidanceStep(s) ==
    /\ call.fn = "build_threshold_guidance"
    /\ call.result = None
    /\ call' = [call EXCEPT
                  !.result = Some(build_threshold_guidance(
                                      s, call.args.quality_threshold,
                                      call.args.min_sample_size))]
    /\ UNCHANGED importVars

ApplyGuidance == ApplyGuidanceStep(CallStats)

ApplyPercentiles ==
    /\ call.fn = "compute_quality_percentiles"
    /\ call.result = None
    /\ call' = [call EXCEPT
                  !.result = Some(compute_quality_percentiles_at(
                                      call.args.bucket_counts, call.args.percentiles))]
    /\ UNCHANGED importVars

ApplyScore ==
    /\ call.fn = "calculate_quality_score"
    /\ call.result = None
    /\ call' = [call EXCEPT
                  !.result = Some([i \in 1..2 |->
                                      calculate_quality_score(call.args.key,
                                                              call.args.values[i])])]
    /\ UNCHANGED importVars

\* the next create call of the sequence, on a database that answers
ApplyCreate ==
    /\ call.fn = "FactoidStore.create"
    /\ Len(call.result[1].raised) < Len(call.args.factoids)
    /\ LET factoid == call.args.factoids[Len(call.result[1].raised) + 1]
           created == store_create(call.result[1].rows, factoid, "ok")
       IN call' = [call EXCEPT
                     !.result = Some([rows |-> created.rows,
                                      raised |-> Append(call.result[1].raised,
                                                        created.raised)])]
    /\ UNCHANGED importVars

\* the stats of the call's population with the samples a reservoir of
\* call.args.sample_cap samples holds: none, or the candidate of line 1 of the
\* rejected stream and the candidate of line 2 of the accepted stream
CallStatsWithSamples ==
    LET observed == CallStats
        sample(line_number, quality_score) ==
            build_quality_sample(IS, line_number, <<"p", "y">>, <<"h", "i">>, quality_score)
    IN [observed EXCEPT
          !.rejected_samples =
              IF call.args.sample_cap > 0 /\ observed.rejected_candidates > 0
              THEN <<sample(1, observed.quality_min[1])>> ELSE <<>>,
          !.accepted_samples =
              IF call.args.sample_cap > 0 /\ observed.accepted_candidates > 0
              THEN <<sample(2, observed.quality_max[1])>> ELSE <<>>]

ApplyRenderStep(s) ==
    /\ call.fn = "render_import_summary"
    /\ call.result = None
    /\ call' = [call EXCEPT
                  !.result = Some(render_import_summary(
                                      s, call.args.quality_threshold,
                                      call.args.min_sample_size))]
    /\ UNCHANGED importVars

ApplyRender == ApplyRenderStep(CallStatsWithSamples)

ApplyParse ==
    /\ call.fn = "parse_factoid_line"
    /\ call.result = None
    /\ call' = [call EXCEPT !.result = Some(parse_factoid_line(call.args.line))]
    /\ UNCHANGED importVars

ApplyStream ==
    /\ call.fn = "record_quality_sample"
    /\ call.result = None
    /\ call' = [call EXCEPT
                  !.result = Some(stream_outcomes(ImportStats, 0, call.args.lines,
                                                  call.args.sample_cap))]
    /\ UNCHANGED importVars

\* one of the two create calls runs up to its next await point
ApplyCreateTask ==
    /\ call.fn = "FactoidStore.create, two tasks"
    /\ \E t \in 1..2 :
          /\ call.result[1].tasks[t].pc # "done"
          /\ LET stepped == store_create_step(call.result[1].rows, call.args.factoids[t],
                                              call.result[1].tasks[t])
             IN call' = [call EXCEPT
                           !.result = Some([rows |-> stepped.rows,
                                            tasks |-> [call.result[1].tasks
                                                          EXCEPT ![t] = stepped.task]])]
    /\ UNCHANGED importVars

NextFunctions ==
    \/ ApplyGuidance
    \/ ApplyPercentiles
    \/ ApplyScore
    \/ ApplyCreate
    \/ ApplyParse
    \/ ApplyRender
    \/ ApplyStream
    \/ ApplyCreateTask

SpecFunctions == InitFunctions /\ [][NextFunctions]_vars

\* ------------------------------------------------------------------------
\* History of the run, read off the lines the model has fed to the importer
\* ------------------------------------------------------------------------

\* the history entries whose line has a separator and two non-empty sides
ParsedEntries == {i \in 1..Len(hist.lines) : LineText[hist.lines[i].line].result # None}

\* the history entries whose line scores at least the threshold
AcceptedEntries ==
    {i \in ParsedEntries : LineText[hist.lines[i].line].quality_score >= cfg.quality_threshold}

EntriesOf(f) == {i \in 1..Len(hist.lines) : hist.lines[i].file = f}

\* the run is between two lines: no persistence attempt is outstanding
AtLineBoundary == pc # "creating"

\* the call has returned its ImportStats
Returned == pc \in {"returned", "reported"}

\* ------------------------------------------------------------------------
\* C1
\* ------------------------------------------------------------------------

\* C1: at every line boundary of an import run (one file or two files sharing
\* one ImportStats), and on return, accepted_candidates + rejected_candidates
\* = quality_observations = parsed, and the histogram buckets sum to
\* quality_observations.
C1_TelemetryCountersAgree ==
    /\ stats.accepted_candidates + stats.rejected_candidates = stats.quality_observations
    /\ stats.quality_observations = stats.parsed
    /\ SumSeq(stats.quality_buckets) = stats.quality_observations

\* a corpus import has returned with an accepted and a rejected candidate and
\* with parsed lines from both files
C1_Witness ==
    /\ pc = "returned"
    /\ cfg.entry = "import_legacy_data"
    /\ stats.accepted_candidates >= 1
    /\ stats.rejected_candidates >= 1
    /\ ParsedEntries \cap EntriesOf(IS) # {}
    /\ ParsedEntries \cap EntriesOf(ARE) # {}

\* ------------------------------------------------------------------------
\* C2
\* ------------------------------------------------------------------------

\* the Factoid built from the accepted record awaiting persistence
PendingFactoid == Factoid(pending[1].key, pending[1].value, file, <<"legacy", file>>)

\* C2: the persistence attempt of an accepted line adds exactly one to exactly
\* one of imported, duplicates and errors: imported when the store took the
\* record, duplicates (not errors) when the store already held its key and
\* type, errors on any other failure; afterwards the loop is back at the next
\* line of the same file.
C2_AcceptedLineOutcome ==
    [][pc = "creating" =>
        LET di == stats'.imported - stats.imported
            dd == stats'.duplicates - stats.duplicates
            de == stats'.errors - stats.errors
            faulted == hist'.faults # hist.faults
            existed == IsOk(PendingFactoid)
                       /\ \E r \in store : /\ r.key = PendingFactoid[2].key
                                           /\ r.factoid_type = file
        IN /\ {di, dd, de} = {0, 1}
           /\ di + dd + de = 1
           /\ di = 1 <=> (IsOk(PendingFactoid) /\ ~faulted /\ ~existed)
           /\ dd = 1 <=> (~faulted /\ existed)
           /\ di = 1 => PendingFactoid[2] \in store'
           /\ di = 0 /\ ~faulted => store' = store
           /\ [stats' EXCEPT !.imported = 0, !.duplicates = 0, !.errors = 0]
                = [stats EXCEPT !.imported = 0, !.duplicates = 0, !.errors = 0]
           /\ pc' = "reading"
           /\ file' = file
           /\ line_num' = line_num
    ]_vars

\* a run whose first line failed to persist went on to import a record and to
\* count a duplicate
C2_Witness ==
    /\ pc = "reading"
    /\ Len(hist.lines) = 3
    /\ hist.lines[1].line = LINE_CONTROL_KEY
    /\ stats.errors = 1
    /\ stats.imported = 1
    /\ stats.duplicates = 1

\* ------------------------------------------------------------------------
\* C3
\* ------------------------------------------------------------------------

\* the key of a history entry as clean_irc_formatting leaves it
NormalizedKey(i) == LineText[hist.lines[i].line].key

NormalizedValue(i) == LineText[hist.lines[i].line].value

\* the accepted entries whose normalized key and value are not empty
StorableEntries == {i \in AcceptedEntries : NormalizedKey(i) # <<>> /\ NormalizedValue(i) # <<>>}

\* the first storable entry with the lower-cased key and type of entry i
FirstOf(i) ==
    CHOOSE j \in StorableEntries :
        /\ Lower(NormalizedKey(j)) = Lower(NormalizedKey(i))
        /\ hist.lines[j].file = hist.lines[i].file
        /\ \A k \in StorableEntries :
              (Lower(NormalizedKey(k)) = Lower(NormalizedKey(i))
               /\ hist.lines[k].file = hist.lines[i].file) => j <= k

\* C3 as stated: with no store faults, imported is the number of distinct
\* (normalized key, type) pairs of the accepted lines and duplicates is the
\* number of the remaining accepted lines.
C3_AsStated ==
    AtLineBoundary /\ hist.faults = 0 =>
        /\ stats.imported =
              Cardinality({<<NormalizedKey(i), hist.lines[i].file>> : i \in AcceptedEntries})
        /\ stats.duplicates = Cardinality(AcceptedEntries) - stats.imported

\* C3, amended: into a store that starts empty and with no store faults,
\* over the accepted lines whose normalized key and value are not empty,
\* imported is the number of distinct (lower-cased normalized key, type)
\* pairs, duplicates is the number of the remaining such lines, and the store
\* holds for each pair the value of its first line; the accepted lines with
\* an empty normalized key or value are counted in errors.
C3_FirstLineWins ==
    AtLineBoundary /\ hist.faults = 0 =>
        /\ stats.imported =
              Cardinality({<<Lower(NormalizedKey(i)), hist.lines[i].file>> : i \in StorableEntries})
        /\ stats.duplicates = Cardinality(StorableEntries) - stats.imported
        /\ stats.errors = Cardinality(AcceptedEntries \ StorableEntries) + Len(hist.read_failures)
        /\ {<<r.key, r.factoid_type, r.value>> : r \in store} =
              {<<Lower(NormalizedKey(FirstOf(i))), hist.lines[i].file,
                 NormalizedValue(FirstOf(i))>> : i \in StorableEntries}

\* "py => a language" was imported and "Py => the big snake" after it was
\* counted as a duplicate; the store keeps "a language"
C3_Witness ==
    /\ AtLineBoundary
    /\ hist.faults = 0
    /\ Len(hist.lines) = 2
    /\ hist.lines[1].line = LINE_PY
    /\ hist.lines[2].line = LINE_PY_BOLD
    /\ hist.lines[1].file = hist.lines[2].file
    /\ stats.imported = 1
    /\ stats.duplicates = 1
    /\ \E r \in store : r.value = LineText[LINE_PY].value

\* ------------------------------------------------------------------------
\* C4
\* ------------------------------------------------------------------------

\* C4: a read failure of a file (at open or between two lines) ends the
\* processing of that file, adds exactly one to errors and leaves every other
\* counter, the histogram and the reservoirs as the processed lines left
\* them; import_legacy_data then goes on to the ARE file when the IS file
\* failed, and a returned corpus import has opened every file that exists.
C4_ReadFailure ==
    /\ [][Len(hist'.read_failures) > Len(hist.read_failures) =>
            /\ stats'.errors = stats.errors + 1
            /\ [stats' EXCEPT !.errors = 0, !.quality_p50 = None, !.quality_p75 = None,
                              !.quality_p90 = None, !.quality_p95 = None]
                 = [stats EXCEPT !.errors = 0, !.quality_p50 = None, !.quality_p75 = None,
                                 !.quality_p90 = None, !.quality_p95 = None]
            /\ store' = store
            /\ file' = "none"
            /\ pc' = IF cfg.entry = "import_factoid_file" THEN "returned"
                     ELSE IF file = IS THEN "are_file" ELSE "close"
       ]_vars
    /\ [](\A j \in 1..Len(hist.read_failures) :
            Cardinality(EntriesOf(hist.read_failures[j].file)) = hist.read_failures[j].after)
    /\ [](pc = "returned" /\ cfg.entry # "import_factoid_file" =>
            /\ cfg.is_exists => IS \in opened
            /\ cfg.are_exists => ARE \in opened)

\* the read of the IS file failed after a parsed line, and the corpus import
\* returned with lines of the ARE file processed
C4_Witness ==
    /\ pc = "returned"
    /\ cfg.entry = "import_legacy_data"
    /\ Len(hist.read_failures) = 1
    /\ hist.read_failures[1].file = IS
    /\ hist.read_failures[1].after >= 1
    /\ stats.errors = 1
    /\ ParsedEntries \cap EntriesOf(IS) # {}
    /\ ParsedEntries \cap EntriesOf(ARE) # {}

\* ------------------------------------------------------------------------
\* C5
\* ------------------------------------------------------------------------

\* C5: after any sequence of sample insertions neither reservoir holds more
\* than sample_cap samples, and with sample_cap = 0 both stay empty.
C5_ReservoirWithinCap ==
    /\ Len(stats.accepted_samples) <= sample_cap
    /\ Len(stats.rejected_samples) <= sample_cap
    /\ sample_cap = 0 => stats.accepted_samples = <<>> /\ stats.rejected_samples = <<>>

\* three accepted candidates were offered to a reservoir of one slot
C5_Witness ==
    /\ sample_cap = 1
    /\ stats.accepted_candidates = 3
    /\ Len(stats.accepted_samples) = 1

\* ------------------------------------------------------------------------
\* C6
\* ------------------------------------------------------------------------

\* C6: two import runs with the same seed, sample cap and threshold that have
\* read the same sequence of lines return identical accepted_samples and
\* identical rejected_samples, slot by slot, whatever their clocks and
\* databases did.
C6_SamplesReproducible ==
    Returned =>
        /\ stats.accepted_samples = twin.stats.accepted_samples
        /\ stats.rejected_samples = twin.stats.rejected_samples

\* both runs returned after three accepted lines competed for the reservoir,
\* the first run importing records the second counted as duplicates or
\* errors, and the second run's clock having advanced
C6_Witness ==
    /\ Returned
    /\ stats.accepted_candidates = 3
    /\ Len(stats.accepted_samples) = sample_cap
    /\ \E k \in 1..Len(stats.accepted_samples) : stats.accepted_samples[k].line_number = 3
    /\ twin.stats.imported < stats.imported
    /\ twin.clock > clock

\* ------------------------------------------------------------------------
\* C7
\* ------------------------------------------------------------------------

\* the configuration errors of the call: a threshold outside [0.0, 1.0], a
\* cadence that is not positive (import_factoid_file takes the cadence; the
\* other two entry points use the default), an environment value that is not
\* an integer, a negative sample cap
InvalidConfiguration ==
    \/ cfg.quality_threshold < 0
    \/ cfg.quality_threshold > 100
    \/ /\ cfg.entry = "import_factoid_file"
       /\ cfg.parsed_interval <= 0 \/ cfg.seconds_interval <= 0
    \/ cfg.env_sample_cap = EnvGarbage
    \/ cfg.env_sample_cap # None /\ cfg.env_sample_cap # EnvGarbage /\ cfg.env_sample_cap[1][2] < 0
    \/ cfg.env_rng_seed = EnvGarbage

\* C7: with an invalid configuration the call raises before anything else:
\* no factoid file has been opened, the database has not been connected, no
\* ImportStats field has changed and nothing was stored.
C7_ConfigurationFailsFast ==
    InvalidConfiguration =>
        /\ pc \in {"start", "import_legacy_data", "raised"}
        /\ opened = {}
        /\ db = "unopened"
        /\ stats = ImportStats
        /\ store = {}
        /\ hist.lines = <<>>

\* main has raised on a threshold above 1.0
C7_Witness ==
    /\ pc = "raised"
    /\ cfg.entry = "main"
    /\ cfg.quality_threshold > 100
    /\ InvalidConfiguration

\* ------------------------------------------------------------------------
\* C8
\* ------------------------------------------------------------------------

\* number of history entries of the set S
Count(S) == Cardinality(S)

\* C8: import_legacy_data reads every line of the IS file before the first
\* line of the ARE file; starting the ARE file changes neither the
\* ImportStats (counters, histogram, population counters, reservoirs) nor the
\* generator; and the counters of the returned ImportStats are the sums over
\* the lines of both files.
C8_FilesShareOneAccumulator ==
    /\ [](\A i, j \in 1..Len(hist.lines) :
            hist.lines[i].file = ARE /\ hist.lines[j].file = IS => j < i)
    /\ [][pc = "are_file" => stats' = stats /\ quality_rng' = quality_rng
                             /\ sample_cap' = sample_cap]_vars
    /\ [](Returned /\ cfg.entry # "import_factoid_file" =>
            /\ stats.total_lines = Count(EntriesOf(IS)) + Count(EntriesOf(ARE))
            /\ stats.parsed = Count(ParsedEntries \cap EntriesOf(IS))
                              + Count(ParsedEntries \cap EntriesOf(ARE))
            /\ stats.accepted_candidates = Count(AcceptedEntries \cap EntriesOf(IS))
                                           + Count(AcceptedEntries \cap EntriesOf(ARE))
            /\ stats.rejected_candidates =
                   Count((ParsedEntries \ AcceptedEntries) \cap EntriesOf(IS))
                   + Count((ParsedEntries \ AcceptedEntries) \cap EntriesOf(ARE))
            /\ stats.skipped_low_quality = stats.rejected_candidates
            /\ stats.quality_observations = stats.parsed
            /\ SumSeq(stats.quality_buckets) = stats.parsed
            /\ stats.imported + stats.duplicates + stats.errors
                 = stats.accepted_candidates + Len(hist.read_failures))

\* a corpus import returned with parsed lines of the IS file and of the ARE file
C8_Witness ==
    /\ pc = "returned"
    /\ cfg.entry = "import_legacy_data"
    /\ Len(hist.read_failures) = 0
    /\ Count(ParsedEntries \cap EntriesOf(IS)) >= 1
    /\ Count(AcceptedEntries \cap EntriesOf(ARE)) >= 1
    /\ stats.parsed = 3

\* ------------------------------------------------------------------------
\* C9
\* ------------------------------------------------------------------------

\* the snapshot emitted last, and the start of the file being read
LastEmission == diagnostics[Len(diagnostics)]

FileStart == hist.starts[Len(hist.starts)]

\* the parsed count and clock reading the cadence is measured from, as
\* stated: the last emission of the run, or the start of the file when the
\* run has not emitted yet
BaselineAsStated ==
    IF diagnostics # <<>> THEN [parsed |-> LastEmission.parsed, mono |-> LastEmission.mono]
    ELSE [parsed |-> FileStart.parsed, mono |-> FileStart.mono]

\* ... amended: the last emission within the file being read, or the start
\* of that file
BaselineInFile ==
    IF diagnostics # <<>> /\ LastEmission.file = file
    THEN [parsed |-> LastEmission.parsed, mono |-> LastEmission.mono]
    ELSE [parsed |-> FileStart.parsed, mono |-> FileStart.mono]

\* a record was parsed in this step, and a snapshot was emitted in it
ParsedStep == stats'.parsed = stats.parsed + 1

Emitted == Len(diagnostics') = Len(diagnostics) + 1

\* the step emits iff a cadence measured from base is due, and an emission
\* sets both baselines to the current parsed count and clock reading
CadenceFrom(base) ==
    ParsedStep =>
        /\ Emitted <=> \/ stats'.parsed - base.parsed >= cfg.parsed_interval
                       \/ clock' - base.mono >= cfg.seconds_interval
        /\ ~Emitted => diagnostics' = diagnostics
        /\ Emitted => /\ diagnostics'[Len(diagnostics')].parsed = stats'.parsed
                      /\ diagnostics'[Len(diagnostics')].mono = clock'
                      /\ last_diagnostic_parsed' = stats'.parsed
                      /\ last_diagnostic_mono' = clock'

\* with a clock that never advanced, the parsed lines of each file have
\* produced floor(N / parsed_interval) emissions
FloorEmissions ==
    (hist.jumps = 0 /\ pc \notin {"start", "import_legacy_data", "raised"}) =>
        \A f \in {IS, ARE} :
            Cardinality({k \in 1..Len(diagnostics) : diagnostics[k].file = f})
              = Cardinality(ParsedEntries \cap EntriesOf(f)) \div cfg.parsed_interval

\* C9 as stated: the cadence is measured from the last emission.
C9_AsStated == [][CadenceFrom(BaselineAsStated)]_vars /\ []FloorEmissions

\* C9, amended: after each parsed record a snapshot is emitted iff the
\* records parsed, or the clock time elapsed, since the last emission within
\* the current file -- or since the start of the current file when it has
\* not emitted yet -- has reached parsed_interval, respectively
\* seconds_interval; an emission resets both baselines to their current
\* values, so with a clock that never advances N parsed lines of one file
\* produce exactly floor(N / parsed_interval) emissions.
C9_CadencePerFile == [][CadenceFrom(BaselineInFile)]_vars /\ []FloorEmissions

\* the ARE file has started at least seconds_interval after an emission of
\* the IS file, and a record of the ARE file was parsed without an emission
C9_Witness ==
    /\ file = ARE
    /\ diagnostics # <<>>
    /\ LastEmission.file = IS
    /\ clock - LastEmission.mono >= cfg.seconds_interval
    /\ ParsedEntries \cap EntriesOf(ARE) # {}
    /\ Len(diagnostics) = 1

\* ------------------------------------------------------------------------
\* C10
\* ------------------------------------------------------------------------

\* C10: whenever build_threshold_guidance returns, it returns confidence
\* "low" without a suggested_threshold if quality_observations <
\* min_sample_size, and confidence "medium" with a suggested_threshold if
\* quality_observations >= min_sample_size.
C10_GuidanceSampleGate ==
    guidance # None /\ IsOk(guidance[1].result) =>
        LET g == guidance[1].result[2]
        IN IF stats.quality_observations < guidance[1].min_sample_size
           THEN g.confidence = "low" /\ g.suggested_threshold = None
           ELSE g.confidence = "medium" /\ g.suggested_threshold # None

\* guidance was built from exactly min_sample_size observations
C10_Witness ==
    /\ guidance # None
    /\ IsOk(guidance[1].result)
    /\ stats.quality_observations = guidance[1].min_sample_size
    /\ guidance[1].result[2].confidence = "medium"

\* ------------------------------------------------------------------------
\* C11
\* ------------------------------------------------------------------------

\* the guidance a call of build_threshold_guidance has returned
Returned_guidance == call.result[1][2]

\* s hundredths is the estimate f = <<n, d>> itself
SameScore(s, f) == s * f[2] = 100 * f[1]

\* s hundredths is the estimate f rounded to two decimals: no hundredth is
\* nearer to f
NearestHundredth(s, f) ==
    LET e == s * f[2] - 100 * f[1]
    IN 2 * e <= f[2] /\ -2 * e <= f[2]

\* the suggestion rule of build_threshold_guidance, for a given reading of
\* "the suggestion is the estimate"
SuggestionRule(Suggests(_, _)) ==
    Applied("build_threshold_guidance") /\ IsOk(call.result[1]) =>
        LET observed == CallStats
            observations == observed.quality_observations
            rejected == observed.rejected_candidates
            suggested == Returned_guidance.suggested_threshold
        IN observations >= call.args.min_sample_size =>
              /\ suggested # None
              /\ IF rejected * 100 > 80 * observations
                 THEN Suggests(suggested[1],
                               PercentileEstimate(observed.quality_buckets, 50))
                 ELSE IF rejected * 100 < 5 * observations
                 THEN Suggests(suggested[1],
                               PercentileEstimate(observed.quality_buckets, 90))
                 ELSE suggested[1] = call.args.quality_threshold

\* C11 as stated: with at least min_sample_size observations the suggestion
\* is the p50 estimate when the reject rate is above 0.80, the p90 estimate
\* when it is below 0.05, and the current threshold otherwise.
C11_AsStated == SuggestionRule(SameScore)

\* C11: with at least min_sample_size observations and reject rate
\* rejected/observations, the suggestion is the p50 estimate rounded to two
\* decimals when the rate is strictly above 0.80, the p90 estimate rounded to
\* two decimals when the rate is strictly below 0.05, and exactly the current
\* threshold otherwise, the rates 0.80 and 0.05 themselves included.
C11_SuggestionRule == SuggestionRule(NearestHundredth)

\* three rejected candidates of score 0.20: the p50 estimate is 0.2666...,
\* the suggestion 0.27
C11_Witness ==
    /\ Applied("build_threshold_guidance")
    /\ IsOk(call.result[1])
    /\ CallStats.quality_observations = 3
    /\ CallStats.rejected_candidates = 3
    /\ PercentileEstimate(CallStats.quality_buckets, 50) = <<8, 30>>
    /\ Returned_guidance.suggested_threshold = Some(27)

\* ------------------------------------------------------------------------
\* C12
\* ------------------------------------------------------------------------

\* C12 as stated: for the stats of an import at threshold T with at least
\* min_sample_size observations and a reject rate above 0.80, the suggested
\* threshold is at most T.
C12_AsStated ==
    Applied("build_threshold_guidance") /\ IsOk(call.result[1]) =>
        LET observed == CallStats
            observations == observed.quality_observations
            rejected == observed.rejected_candidates
        IN observations >= call.args.min_sample_size
           /\ rejected * 100 > 80 * observations =>
              /\ Returned_guidance.suggested_threshold # None
              /\ Returned_guidance.suggested_threshold[1] <= call.args.quality_threshold

\* ------------------------------------------------------------------------
\* C13
\* ------------------------------------------------------------------------

\* the fraction f is at most the fraction g
FractionLeq(f, g) == f[1] * g[2] <= g[1] * f[2]

\* the bucket (1-based) that holds the candidate of a rank, counting the
\* candidates from the lowest bucket upwards
HoldingBucket(bucket_counts, rank) ==
    CHOOSE b \in 1..QUALITY_BUCKET_COUNT :
        /\ SumSeq(SubSeq(bucket_counts, 1, b - 1)) < rank
        /\ rank <= SumSeq(SubSeq(bucket_counts, 1, b))

\* the rank a percentile asks for: the smallest whole rank that is at least
\* percentile/100 of the total, and at least 1
AskedRank(total, percentile) ==
    CHOOSE r \in 1..Max(1, total) :
        /\ 100 * r >= total * percentile
        /\ r = 1 \/ 100 * (r - 1) < total * percentile

\* C13: for a 10-bucket histogram with at least one observation and
\* percentiles p <= q the estimate of p is at most the estimate of q, so
\* p50 <= p75 <= p90 <= p95, and each estimate lies within the score bounds of
\* the bucket that holds its target rank.
C13_PercentilesMonotone ==
    Applied("compute_quality_percentiles")
    /\ SumSeq(call.args.bucket_counts) > 0 =>
        LET estimate == [p \in call.args.percentiles |-> call.result[1][p]]
        IN /\ \A p \in call.args.percentiles : estimate[p] # None
           /\ \A p, q \in call.args.percentiles :
                  p <= q => FractionLeq(estimate[p][1], estimate[q][1])
           /\ \A p \in call.args.percentiles :
                  LET b == HoldingBucket(call.args.bucket_counts,
                               AskedRank(SumSeq(call.args.bucket_counts), p))
                  IN /\ FractionLeq(<<b - 1, QUALITY_BUCKET_COUNT>>, estimate[p][1])
                     /\ FractionLeq(estimate[p][1], <<b, QUALITY_BUCKET_COUNT>>)

\* three candidates in bucket [0.2, 0.3) and two in [0.7, 0.8): p50 is inside
\* the lower bucket, p75 and p90 inside the upper one
C13_Witness ==
    /\ Applied("compute_quality_percentiles")
    /\ call.args.bucket_counts = <<0, 0, 3, 0, 0, 0, 0, 2, 0, 0>>
    /\ call.result[1][50] = Some(<<9, 30>>)
    /\ call.result[1][75] = Some(<<15, 20>>)
    /\ call.result[1][90] = Some(<<16, 20>>)

\* ------------------------------------------------------------------------
\* C14
\* ------------------------------------------------------------------------

\* C14: for every key and value calculate_quality_score returns a score s
\* with 0.0 <= s <= 1.0, whatever penalties and bonuses apply.
C14_ScoreInUnitInterval ==
    Applied("calculate_quality_score") =>
        \A i \in 1..2 : 0 <= call.result[1][i] /\ call.result[1][i] <= 100

\* a clean key with a reply marker and a URL: the signals add up to 1.1 and
\* the score is 1.0
C14_Witness ==
    /\ Applied("calculate_quality_score")
    /\ 50 + KeyScore(call.args.key) + ValueScore(call.args.values[2]) = 110
    /\ call.result[1][2] = 100

\* ------------------------------------------------------------------------
\* C15
\* ------------------------------------------------------------------------

\* C15 as stated: for every key, a value that contains https:// scores
\* strictly higher than the otherwise-identical value without it.
C15_AsStated ==
    Applied("calculate_quality_score") => call.result[1][2] > call.result[1][1]

\* ------------------------------------------------------------------------
\* C16
\* ------------------------------------------------------------------------

\* the call is import_legacy_data, made directly or by main
ThroughImportLegacyData == cfg.entry \in {"import_legacy_data", "main"}

OneRecordPerPair(rows) ==
    \A r1, r2 \in rows :
        Lower(r1.key) = Lower(r2.key) /\ r1.factoid_type = r2.factoid_type => r1 = r2

\* one create call: on a pair that is present it raises the already-exists
\* error and leaves the rows as they are, otherwise it succeeds and adds the
\* record
CreateOutcome ==
    call.fn = "FactoidStore.create" /\ call'.fn = "FactoidStore.create" =>
        LET rows == call.result[1].rows
            n == Len(call'.result[1].raised)
            factoid == call.args.factoids[n]
            present ==
                \E r \in rows : /\ Lower(r.key) = Lower(factoid.key)
                                /\ r.factoid_type = factoid.factoid_type
        IN /\ n = Len(call.result[1].raised) + 1
           /\ IF present
              THEN /\ call'.result[1].raised[n] = "FactoidExistsError"
                   /\ call'.result[1].rows = rows
              ELSE /\ call'.result[1].raised[n] = "none"
                   /\ call'.result[1].rows = rows \cup {factoid}

\* C17: after any sequence of sequential FactoidStore.create calls the store
\* holds at most one record per (lower-cased key, type): create on a pair
\* that is present raises the already-exists error and leaves the stored
\* record unchanged, create of the same key with the other type succeeds.
C17_OneRecordPerKeyAndType ==
    /\ [](call.fn = "FactoidStore.create" => OneRecordPerPair(call.result[1].rows))
    /\ [][CreateOutcome]_vars

\* "py" created under "is", "Py" under "is" refused, "py" under "are" created
C17_Witness ==
    /\ call.fn = "FactoidStore.create"
    /\ call.result[1].raised = <<"none", "FactoidExistsError", "none">>
    /\ Cardinality(call.result[1].rows) = 2
    /\ \E r \in call.result[1].rows :
           r.key = <<"p", "y">> /\ r.factoid_type = IS /\ r.value = <<"v", "1">>
    /\ \E r \in call.result[1].rows :
           r.key = <<"p", "y">> /\ r.factoid_type = ARE /\ r.value = <<"v", "2">>

\* ------------------------------------------------------------------------
\* C18
\* ------------------------------------------------------------------------

\* the places of the line where a separator starts
SeparatorsOf(line) ==
    {i \in 1..(Len(line) - 1) : line[i] = "=" /\ line[i + 1] = ">"}

\* the text with the plain whitespace at its two ends taken away
TrimmedPlain(text) ==
    LET kept == {i \in 1..Len(text) : text[i] \notin PlainWhitespace}
    IN IF kept = {} THEN <<>>
       ELSE SubSeq(text, CHOOSE i \in kept : \A k \in kept : i <= k,
                         CHOOSE i \in kept : \A k \in kept : i >= k)

\* C18: parse_factoid_line never raises; it returns absence exactly when the
\* line has no => separator or the text before or after the first => is
\* empty after trimming plain whitespace; otherwise it returns (key, value),
\* key the trimmed text before the first => and value the trimmed text after
\* it, later => occurrences staying inside value.
C18_ParseAtFirstSeparator ==
    Applied("parse_factoid_line") =>
        LET line == call.args.line
            parsed == call.result[1]
        IN IF SeparatorsOf(line) = {}
           THEN parsed = None
           ELSE LET first == CHOOSE i \in SeparatorsOf(line) :
                                 \A k \in SeparatorsOf(line) : i <= k
                    before == TrimmedPlain(SubSeq(line, 1, first - 1))
                    after == TrimmedPlain(SubSeq(line, first + 2, Len(line)))
                IN IF before = <<>> \/ after = <<>>
                   THEN parsed = None
                   ELSE parsed = <<before, after>>

\* "a=>=>" is parsed into the key "a" and the value "=>"
C18_Witness ==
    /\ Applied("parse_factoid_line")
    /\ call.args.line = <<"a", "=", ">", "=", ">">>
    /\ call.result[1] = <<<<"a">>, <<"=", ">">>>>

\* ------------------------------------------------------------------------
\* C19
\* ------------------------------------------------------------------------

\* the texts of the lines a call of render_import_summary has returned
RenderedTexts ==
    {call.result[1][2][i].text : i \in 1..Len(call.result[1][2])}

GUARDRAIL == "Guardrail: recommendation withheld until sample size is sufficient."

\* the returned lines hold every section of sections and one line per bucket,
\* and the guardrail notice exactly when the confidence is "low"
ReportHolds(sections) ==
    Applied("render_import_summary") /\ IsOk(call.result[1]) =>
        LET lines == call.result[1][2]
            confidence ==
                build_threshold_guidance(CallStatsWithSamples, call.args.quality_threshold,
                                         call.args.min_sample_size)[2].confidence
        IN /\ sections \subseteq RenderedTexts
           /\ \A b \in 0..(QUALITY_BUCKET_COUNT - 1) :
                  Cardinality({i \in 1..Len(lines) :
                                  lines[i].text = "bucket" /\ lines[i].values[1] = b}) = 1
           /\ (GUARDRAIL \in RenderedTexts) = (confidence = "low")

\* the sections of the report that render_import_summary prints
PrintedSections ==
    {"IMPORT SUMMARY", "QUALITY METRICS", "Percentiles:", "Histogram:",
     "Accepted samples:", "Rejected samples:", "Threshold guidance:"}

\* C19 as stated: the lines returned by render_import_summary contain the
\* sections 'IMPORT SUMMARY', 'QUALITY METRICS', 'Percentiles:', 'Histogram:',
\* 'Bucket distribution:', one line per histogram bucket, 'Accepted samples:',
\* 'Rejected samples:' and 'Threshold guidance:', and the guardrail notice
\* exactly when the guidance confidence is 'low'.
C19_AsStated == ReportHolds(PrintedSections \cup {"Bucket distribution:"})

\* ------------------------------------------------------------------------
\* C20
\* ------------------------------------------------------------------------

\* the sample built from the line read in this step, and whether the step
\* counted it as an accepted candidate
SampleRead ==
    [LineText[hist'.lines[Len(hist'.lines)].line].sample
        EXCEPT !.source_file = file, !.line_number = line_num']

AcceptedRead == stats'.accepted_candidates = stats.accepted_candidates + 1

\* the counter of the stream of the line read in this step, before the step
\* and after it
CountedBefore ==
    IF AcceptedRead THEN stats.accepted_candidates ELSE stats.rejected_candidates

CountedAfter ==
    IF AcceptedRead THEN stats'.accepted_candidates ELSE stats'.rejected_candidates

\* a step that parses a line leaves the other stream's reservoir alone and
\* offers the line's sample to its own: nothing happens with a cap of zero
\* or less, the sample is appended while the reservoir holds fewer than cap
\* samples, and otherwise j is drawn from 0..n-1 and the sample replaces
\* slot j only when j < cap
AlgorithmR(n) ==
    ParsedStep =>
        LET before == IF AcceptedRead THEN stats.accepted_samples
                      ELSE stats.rejected_samples
            after == IF AcceptedRead THEN stats'.accepted_samples
                     ELSE stats'.rejected_samples
        IN /\ AcceptedRead => stats'.rejected_samples = stats.rejected_samples
           /\ ~AcceptedRead => stats'.accepted_samples = stats.accepted_samples
           /\ IF sample_cap <= 0
              THEN after = before /\ quality_rng' = quality_rng
              ELSE IF Len(before) < sample_cap
              THEN after = Append(before, SampleRead) /\ quality_rng' = quality_rng
              ELSE LET j == randrange(quality_rng, n)
                   IN /\ j \in 0..(n - 1)
                      /\ after = IF j < sample_cap
                                 THEN [before EXCEPT ![j + 1] = SampleRead]
                                 ELSE before
                      /\ quality_rng' = RngAdvance(quality_rng)

\* C20 as stated: when a sample is inserted into a reservoir during import,
\* the population counter n handed to Algorithm R is the value of that
\* stream's accepted_candidates / rejected_candidates before the current
\* sample is counted; if the reservoir is already full, j is drawn from
\* 0..n-1 and the sample replaces slot j only when j < cap.
C20_AsStated == [][AlgorithmR(CountedBefore)]_vars

\* C20: when a sample is inserted into a reservoir during import, the
\* population counter n handed to Algorithm R is the value of that stream's
\* accepted_candidates / rejected_candidates after the current sample has
\* been counted; if the reservoir is already full, j is drawn from 0..n-1 and
\* the sample replaces slot j only when j < cap.
C20_PopulationCountsCurrentSample == [][AlgorithmR(CountedAfter)]_vars

\* the second accepted line of a file met a full reservoir of one slot and
\* replaced its sample
C20_Witness ==
    /\ sample_cap = 1
    /\ Len(hist.lines) = 2
    /\ hist.lines[1].file = hist.lines[2].file
    /\ stats.accepted_candidates = 2
    /\ Len(stats.accepted_samples) = 1
    /\ stats.accepted_samples[1].line_number = 2

\* ------------------------------------------------------------------------
\* C21
\* ------------------------------------------------------------------------

\* the outcomes of the stream of the call, and those that hold the sample of
\* line i
StreamOutcomes == call.result[1]

Holding(i) ==
    {o \in 1..Len(StreamOutcomes) :
        \E k \in 1..Len(StreamOutcomes[o]) : StreamOutcomes[o][k] = i}

\* C21: for a stream of n samples offered to one reservoir with cap c
\* (0 < c < n) in the order the import offers them, counting over all
\* possible sequences of RNG draws, each of the n samples is in the final
\* reservoir in the same fraction c/n of the outcomes.
C21_ReservoirUniform ==
    Applied("record_quality_sample") =>
        LET n == call.args.lines
            c == call.args.sample_cap
        IN 0 < c /\ c < n =>
              \A i \in 1..n :
                  Cardinality(Holding(i)) * n = c * Len(StreamOutcomes)

\* four lines were offered to a reservoir of two slots: twelve sequences of
\* draws, six of them ending with the sample of line 1 held and six with the
\* sample of line 4 held
C21_Witness ==
    /\ Applied("record_quality_sample")
    /\ call.args.lines = 4
    /\ call.args.sample_cap = 2
    /\ Len(StreamOutcomes) = 12
    /\ Cardinality(Holding(1)) = 6
    /\ Cardinality(Holding(4)) = 6

\* ------------------------------------------------------------------------
\* C22
\* ------------------------------------------------------------------------

\* a line is blank when it holds nothing but " ", "\t", "\r" and "\n"
IsBlank(raw_line) == \A i \in 1..Len(raw_line) : raw_line[i] \in {" ", "\t", "\r", "\n"}

\* the history entries whose line is blank, and those whose line is neither
\* blank nor parsed
BlankEntries == {i \in 1..Len(hist.lines) : IsBlank(hist.lines[i].line)}

InvalidEntries == (1..Len(hist.lines)) \ (BlankEntries \cup ParsedEntries)

\* a line was read in this step, and the line it read
LineRead == Len(hist'.lines) = Len(hist.lines) + 1

RawLineRead == hist'.lines[Len(hist'.lines)].line

\* the step leaves every field of the stats but those of fields alone
StatsChangeOnly(fields) ==
    \A f \in DOMAIN stats : f \notin fields => stats'[f] = stats[f]

\* the step changes no reservoir, generator state, store content, snapshot or
\* pending persistence attempt
NothingElseChanges ==
    /\ quality_rng' = quality_rng
    /\ store' = store
    /\ diagnostics' = diagnostics
    /\ last_diagnostic_parsed' = last_diagnostic_parsed
    /\ last_diagnostic_mono' = last_diagnostic_mono
    /\ pending' = None

\* C22: every line read is classified as exactly one of blank, invalid or
\* parsed, so at every line boundary total_lines == (number of blank lines) +
\* skipped_invalid + parsed; a blank line changes only total_lines and an
\* invalid line changes only total_lines and skipped_invalid: no telemetry
\* field, reservoir, RNG state or store content changes.
C22_LineClassification ==
    /\ [](/\ BlankEntries \cap ParsedEntries = {}
          /\ stats.total_lines = Len(hist.lines)
          /\ stats.skipped_invalid = Cardinality(InvalidEntries)
          /\ stats.parsed = Cardinality(ParsedEntries)
          /\ stats.total_lines
               = Cardinality(BlankEntries) + stats.skipped_invalid + stats.parsed)
    /\ [][LineRead /\ IsBlank(RawLineRead) =>
            /\ stats'.total_lines = stats.total_lines + 1
            /\ StatsChangeOnly({"total_lines"})
            /\ NothingElseChanges]_vars
    /\ [][LineRead /\ ~IsBlank(RawLineRead) /\ LineText[RawLineRead].result = None =>
            /\ stats'.total_lines = stats.total_lines + 1
            /\ stats'.skipped_invalid = stats.skipped_invalid + 1
            /\ StatsChangeOnly({"total_lines", "skipped_invalid"})
            /\ NothingElseChanges]_vars

\* a blank line and an unparsable line were read after an accepted line was
\* stored and sampled
C22_Witness ==
    /\ Len(hist.lines) = 3
    /\ hist.lines[1].line = LINE_PY
    /\ hist.lines[2].line = LINE_BLANK
    /\ hist.lines[3].line = LINE_INVALID
    /\ stats.total_lines = 3
    /\ stats.skipped_invalid = 1
    /\ stats.parsed = 1
    /\ stats.imported = 1
    /\ Len(stats.accepted_samples) = 1

\* ------------------------------------------------------------------------
\* C23
\* ------------------------------------------------------------------------

\* the score of the line read in this step
ScoreRead == LineText[RawLineRead].quality_score

\* the history entries whose line is scored below the threshold
RejectedEntries == ParsedEntries \ AcceptedEntries

\* C23: a scored line with score < threshold increments skipped_low_quality
\* by one, leads to no store call, and has already been counted in
\* rejected_candidates, the histogram and the rejected reservoir; a line with
\* score >= threshold, including a score exactly equal to the threshold,
\* always proceeds to a persistence attempt and never increments
\* skipped_low_quality.
C23_ThresholdDecision ==
    /\ [][ParsedStep /\ ScoreRead < cfg.quality_threshold =>
            /\ stats'.skipped_low_quality = stats.skipped_low_quality + 1
            /\ pending' = None /\ pc' # "creating" /\ store' = store
            /\ stats'.rejected_candidates = stats.rejected_candidates + 1
            /\ stats'.accepted_candidates = stats.accepted_candidates
            /\ stats'.quality_buckets =
                   [stats.quality_buckets
                       EXCEPT ![get_quality_bucket_index(ScoreRead) + 1] = @ + 1]
            /\ ~AcceptedRead /\ AlgorithmR(CountedAfter)]_vars
    /\ [][ParsedStep /\ ScoreRead >= cfg.quality_threshold =>
            /\ stats'.skipped_low_quality = stats.skipped_low_quality
            /\ stats'.accepted_candidates = stats.accepted_candidates + 1
            /\ pending' # None /\ pc' = "creating" /\ store' = store
            /\ pending'[1].key = LineText[RawLineRead].key
            /\ pending'[1].value = LineText[RawLineRead].value]_vars
    /\ [][pc = "creating" =>
            /\ pending' = None
            /\ stats'.imported + stats'.duplicates + stats'.errors
                 = stats.imported + stats.duplicates + stats.errors + 1
            /\ stats'.skipped_low_quality = stats.skipped_low_quality]_vars
    /\ [](stats.skipped_low_quality = Cardinality(RejectedEntries))

\* at threshold 0.70 a line of score 0.25 was skipped and a line of score
\* exactly 0.70 was stored
C23_Witness ==
    /\ cfg.quality_threshold = 70
    /\ Len(hist.lines) = 2
    /\ LineText[hist.lines[1].line].quality_score = 25
    /\ LineText[hist.lines[2].line].quality_score = 70
    /\ stats.skipped_low_quality = 1
    /\ stats.rejected_candidates = 1
    /\ Len(stats.rejected_samples) = 1
    /\ stats.imported = 1
    /\ pc = "reading"

\* ------------------------------------------------------------------------
\* C24
\* ------------------------------------------------------------------------

\* the percentile fields of s, and the estimates for the histogram of s
PercentileFields(s) == <<s.quality_p50, s.quality_p75, s.quality_p90, s.quality_p95>>

HistogramEstimates(s) ==
    LET percentile_values == compute_quality_percentiles(s.quality_buckets)
    IN <<percentile_values[50], percentile_values[75], percentile_values[90],
         percentile_values[95]>>

\* import_factoid_file returns from a file it has opened
FileEnds == file # "none" /\ file' = "none"

\* C24 as stated: whenever the diagnostic cadence fires during an import, the
\* percentile estimator is run on the current histogram as part of that
\* emission, so quality_p50/p75/p90/p95 equal the estimates for the current
\* histogram at the moment the snapshot is emitted.
C24_AsStated == [][Emitted => PercentileFields(stats') = HistogramEstimates(stats')]_vars

\* C24: the percentile estimator is not run when the diagnostic cadence
\* fires; it is run when import_factoid_file returns from a file, so
\* quality_p50/p75/p90/p95 equal the estimates for the histogram at that
\* moment, and while a file is read (also when a snapshot is emitted) they
\* keep the values they had when the file was opened.
C24_PercentilesRefreshedOnReturn ==
    /\ [][FileEnds => PercentileFields(stats') = HistogramEstimates(stats')]_vars
    /\ [][~FileEnds => PercentileFields(stats') = PercentileFields(stats)]_vars

\* a snapshot was emitted in the second file of a corpus import while the
\* percentile fields still held the estimates made at the end of the first
C24_Witness ==
    /\ file = ARE
    /\ diagnostics # <<>>
    /\ LastEmission.file = ARE
    /\ LastEmission.parsed = stats.parsed
    /\ stats.quality_p50 # None
    /\ PercentileFields(stats) # HistogramEstimates(stats)

\* ------------------------------------------------------------------------
\* C25
\* ------------------------------------------------------------------------

\* the earlier lines of the file being read that are storable under the
\* lower-cased key of the record awaiting persistence
EarlierLinesOfPending ==
    {j \in StorableEntries :
        /\ j < Len(hist.lines)
        /\ hist.lines[j].file = file
        /\ Lower(NormalizedKey(j)) = Lower(pending[1].key)}

\* C25: during a corpus import at most one store.create call is in flight at
\* any moment: processing of line k+1, and of the next file, does not start
\* before the persistence attempt of line k has completed, so a later
\* duplicate of an accepted line always observes the earlier line's commit.
C25_OneCreateAtATime ==
    /\ [](pending # None <=> pc = "creating")
    /\ [][LineRead => pc = "reading" /\ pending = None]_vars
    /\ [][file' # file => pending = None /\ pending' = None]_vars
    /\ [][(pc = "creating" /\ IsOk(PendingFactoid) /\ hist'.faults = 0
             /\ EarlierLinesOfPending # {}) =>
            /\ stats'.duplicates = stats.duplicates + 1
            /\ store' = store]_vars

\* in a corpus import "Py => the big snake" awaits persistence after
\* "py => a language" of the same file was committed
C25_Witness ==
    /\ cfg.entry = "import_legacy_data"
    /\ pc = "creating"
    /\ Len(hist.lines) = 2
    /\ hist.lines[1].line = LINE_PY
    /\ hist.lines[2].line = LINE_PY_BOLD
    /\ EarlierLinesOfPending = {1}
    /\ stats.imported = 1
    /\ store_get(store, pending[1].key, file) # {}

\* ------------------------------------------------------------------------
\* C26
\* ------------------------------------------------------------------------

\* the two tasks of the call, and whether both have ended
CreateTasks == call.result[1].tasks

BothCreatesEnded ==
    /\ call.fn = "FactoidStore.create, two tasks"
    /\ \A t \in 1..2 : CreateTasks[t].pc = "done"

\* a row with the key and type of factoid is among rows
HoldsPair(rows, factoid) ==
    \E r \in rows : r.key = factoid.key /\ r.factoid_type = factoid.factoid_type

\* a create call for a pair the store held when the call began raises
\* FactoidExistsError; of two create calls for one pair the store did not
\* hold, exactly one persists its record and the other raises one of rejected
CreateRace(rejected) ==
    BothCreatesEnded =>
        LET a == call.args.factoids[1]
            b == call.args.factoids[2]
        IN /\ \A t \in 1..2 :
                 HoldsPair(call.args.rows, call.args.factoids[t])
                     => CreateTasks[t].raised = "FactoidExistsError"
           /\ (HoldsPair({a}, b) /\ ~HoldsPair(call.args.rows, a)) =>
                 /\ \E t \in 1..2 :
                       /\ CreateTasks[t].raised = "none"
                       /\ CreateTasks[3 - t].raised \in rejected
                       /\ call.result[1].rows =
                              call.args.rows \cup {call.args.factoids[t]}

\* C26 as stated: FactoidStore.create raises FactoidExistsError whenever a
\* factoid with the same key and type already exists, also when two create
\* calls for the same (key, type) interleave at their await points (both
\* existence lookups complete before either insert): exactly one call
\* persists its record and the other raises FactoidExistsError.
C26_AsStated == CreateRace({"FactoidExistsError"})

\* ------------------------------------------------------------------------
\* C27
\* ------------------------------------------------------------------------

\* the line read in this step is blank or invalid
UnparsedLineRead ==
    LineRead /\ (IsBlank(RawLineRead) \/ LineText[RawLineRead].result = None)

\* C27: no diagnostics snapshot is emitted while no record has been parsed
\* since the last emission (or since the file started), even when the elapsed
\* time is beyond the time interval; in particular blank lines and invalid
\* lines never trigger an emission.
C27_NoEmissionWithoutParsedRecord ==
    /\ [][Emitted =>
            /\ LineRead /\ ~UnparsedLineRead
            /\ stats'.parsed = stats.parsed + 1
            /\ stats'.parsed - last_diagnostic_parsed >= 1]_vars
    /\ [][UnparsedLineRead =>
            /\ diagnostics' = diagnostics
            /\ last_diagnostic_parsed' = last_diagnostic_parsed
            /\ last_diagnostic_mono' = last_diagnostic_mono]_vars

\* an invalid line was read thirty seconds after a parsed line, the time
\* interval having passed since the file was opened, and nothing was emitted
C27_Witness ==
    /\ Len(hist.lines) = 2
    /\ LineText[hist.lines[1].line].result # None
    /\ hist.lines[2].line = LINE_INVALID
    /\ stats.parsed - last_diagnostic_parsed = 1
    /\ clock - last_diagnostic_mono >= cfg.seconds_interval
    /\ cfg.seconds_interval > 0
    /\ diagnostics = <<>>

\* ------------------------------------------------------------------------
\* C28
\* ------------------------------------------------------------------------

\* the failures of the run that ended a file, and the errors that are not
\* among them
FileLevelFailures == Len(hist.read_failures)

PerLineErrors == stats.errors - FileLevelFailures

\* C28: at every line boundary of a run, rejected_candidates ==
\* skipped_low_quality and accepted_candidates == imported + duplicates +
\* (errors caused by per-line persistence failures), so parsed ==
\* skipped_low_quality + imported + duplicates + per-line errors and errors
\* exceeds the per-line errors only by the number of file-level failures.
C28_CandidatesAccountedFor ==
    AtLineBoundary =>
        /\ stats.rejected_candidates = stats.skipped_low_quality
        /\ PerLineErrors = Cardinality(AcceptedEntries \ StorableEntries) + hist.faults
        /\ stats.accepted_candidates = stats.imported + stats.duplicates + PerLineErrors
        /\ stats.parsed = stats.skipped_low_quality + stats.imported + stats.duplicates
                          + PerLineErrors
        /\ stats.errors = PerLineErrors + FileLevelFailures

\* a corpus import stored a record, failed to store another on a database
\* fault, skipped a rejected line and lost the rest of a file to a read
\* failure
C28_Witness ==
    /\ AtLineBoundary
    /\ cfg.entry = "import_legacy_data"
    /\ stats.imported = 1
    /\ stats.skipped_low_quality = 1
    /\ hist.faults = 1
    /\ FileLevelFailures = 1
    /\ stats.errors = 2
    /\ stats.accepted_candidates = 2

\* ------------------------------------------------------------------------
\* C29
\* ------------------------------------------------------------------------

\* the sample import_factoid_file builds from history entry i: that of its
\* text, with the file of the entry and its line number in that file
SampleOfEntry(i) ==
    [LineText[hist.lines[i].line].sample
        EXCEPT !.source_file = hist.lines[i].file,
               !.line_number = Cardinality({j \in EntriesOf(hist.lines[i].file) : j <= i})]

\* the lines whose samples reservoir holds, a line being a file and a line
\* number in it
LinesHeld(reservoir) ==
    {<<reservoir[k].source_file, reservoir[k].line_number>> : k \in 1..Len(reservoir)}

\* C29: within one run at a fixed threshold T, every sample held in
\* accepted_samples has score >= T and every sample held in rejected_samples
\* has score < T; each held sample is the sample of a line parsed in this run,
\* and no line's sample is held in both reservoirs or twice in one reservoir.
C29_ReservoirsPartitionSamples ==
    /\ \A k \in 1..Len(stats.accepted_samples) :
          /\ stats.accepted_samples[k].score >= cfg.quality_threshold
          /\ \E i \in AcceptedEntries : stats.accepted_samples[k] = SampleOfEntry(i)
    /\ \A k \in 1..Len(stats.rejected_samples) :
          /\ stats.rejected_samples[k].score < cfg.quality_threshold
          /\ \E i \in ParsedEntries \ AcceptedEntries :
                 stats.rejected_samples[k] = SampleOfEntry(i)
    /\ LinesHeld(stats.accepted_samples) \cap LinesHeld(stats.rejected_samples) = {}
    /\ Cardinality(LinesHeld(stats.accepted_samples)) = Len(stats.accepted_samples)
    /\ Cardinality(LinesHeld(stats.rejected_samples)) = Len(stats.rejected_samples)

\* after three lines the accepted reservoir of one slot holds the sample of
\* line 3, which replaced that of an earlier accepted line, and the rejected
\* reservoir the sample of a rejected line
C29_Witness ==
    /\ sample_cap = 1
    /\ Len(hist.lines) = 3
    /\ stats.accepted_candidates = 2
    /\ Len(stats.accepted_samples) = 1
    /\ stats.accepted_samples[1].line_number = 3
    /\ Len(stats.rejected_samples) = 1

\* ------------------------------------------------------------------------
\* C30
\* ------------------------------------------------------------------------

\* the line read in this step is parsed and its key or its value is empty
\* after clean_irc_formatting
EmptiedLineRead ==
    /\ LineRead
    /\ LineText[RawLineRead].result # None
    /\ LineText[RawLineRead].key = <<>> \/ LineText[RawLineRead].value = <<>>

\* C30: a parsed line whose key or value becomes empty after markup
\* normalization is still counted in parsed and scored; if it is accepted it
\* is counted in errors and never persisted, and the following lines are
\* still processed, so every record the importer stores has a non-empty key
\* and a non-empty value.
C30_EmptiedRecordsAreErrors ==
    /\ [][EmptiedLineRead =>
            /\ stats'.parsed = stats.parsed + 1
            /\ stats'.quality_observations = stats.quality_observations + 1
            /\ stats'.quality_score_sum = stats.quality_score_sum + ScoreRead
            /\ (ScoreRead >= cfg.quality_threshold) = (pc' = "creating")]_vars
    /\ [][(pc = "creating" /\ (pending[1].key = <<>> \/ pending[1].value = <<>>)) =>
            /\ stats'.errors = stats.errors + 1
            /\ stats'.imported = stats.imported
            /\ stats'.duplicates = stats.duplicates
            /\ store' = store
            /\ pc' = "reading" /\ file' = file]_vars
    /\ [](\A r \in store : r.key # <<>> /\ r.value # <<>>)

\* at threshold 0.0 "py => \x0f", whose value is empty after normalization,
\* was counted in errors, and the line after it was stored
C30_Witness ==
    /\ Len(hist.lines) = 2
    /\ hist.lines[1].line = LINE_CONTROL_VALUE
    /\ hist.lines[2].line = LINE_PY
    /\ stats.parsed = 2
    /\ stats.quality_observations = 2
    /\ stats.errors = 1
    /\ stats.imported = 1
    /\ Cardinality(store) = 1

====
